---- MODULE Spec2Model ----
(***************************************************************************)
(* Credence backend: the subscription/quota service (SubscriptionService)  *)
(* and the relational store (schema + repositories).                       *)
(*                                                                         *)
(* Spec      : the quota service driven by registerKey, reset and          *)
(*             checkAndIncrementQuota calls at advancing clock readings.   *)
(* StoreSpec : the five-table store driven by repository calls.            *)
(* RulesSpec, EndpointSpec, ListSpec, TotalSpec : the same actions, driven  *)
(*             by inputs that break the schema's rules, by request paths,  *)
(*             by the list operations and by totalSlashedForBond.          *)
(* SchemaSpec : the store while createSchema, resetDatabase and dropSchema  *)
(*             run next to repository calls.                               *)
(* TripleSpec : attestations on two bonds between two identities.           *)
(* AuthSpec, GatewaySpec : the middleware requireApiKey and enforceQuota   *)
(*             in front of the quota service.                              *)
(* RaceSpec, BurstSpec, IsolationSpec, OverrideSpec : the quota service    *)
(*             with threads, with sub-millisecond call times, with two     *)
(*             keys, and with admin-override keys asked about paths.       *)
(* ListenerSpec : the AttestationListener handling contract events, wired   *)
(*             to its repository and reputation service.                   *)
(* StubbedSpec : the same with stubs that reject with any value.            *)
(***************************************************************************)
EXTENDS Integers, Sequences, FiniteSets, TLC

VARIABLES
    apiKeys,        \* SubscriptionService.apiKeys : key -> ApiKeyRecord | NoRecord
    quotaUsages,    \* SubscriptionService.quotaUsages : key -> QuotaUsage | NoUsage
    now,            \* the last value read from the clock (Date.now())
    result,         \* the last service call: its arguments, what it read, what it returned
    callsInWindow,  \* history: non-admin calls made for a key since its window opened
    admitted,       \* history: calls answered allowed=true per key, for the window stored
    wiped,          \* history: what the last reset() discarded per key, until the key is used again
    identities,     \* table identities
    bonds,          \* table bonds
    attestations,   \* table attestations
    slashEvents,    \* table slash_events
    scoreHistory,   \* table score_history
    seqs,           \* the BIGSERIAL sequences of the four id columns
    dbNow,          \* the database clock, NOW()
    dbResult,       \* what the last repository call returned or threw
    schema,         \* the tables that exist, and how far createSchema / dropSchema have got
    http,           \* the last middleware run: the request it got, the response it gave
    threads,        \* callers inside checkAndIncrementQuota in a runtime with threads
    recent,         \* history: the time within the millisecond read, the times of the admitted calls
    listener        \* AttestationListener: the handler running and the calls it has made

quotaVars == <<apiKeys, quotaUsages, now, result, callsInWindow, admitted, wiped>>
storeVars == <<identities, bonds, attestations, slashEvents, scoreHistory, seqs, dbNow, dbResult,
               schema>>
edgeVars == <<http, threads, recent, listener>>
vars == <<apiKeys, quotaUsages, now, result, callsInWindow, admitted, wiped,
          identities, bonds, attestations, slashEvents, scoreHistory, seqs, dbNow,
          dbResult, schema, http, threads, recent, listener>>

----------------------------------------------------------------------------
(* Bounds of the quota model *)

\* How many window lengths the clock may run (BurstSpec, which needs a third
\* window, runs its clock to MaxBurstWindows).
MaxWindows == 1

\* How many calls beyond a tier's limit the per-window call count tells apart.
MaxOver == 2

\* How many contract events are delivered to the listener.
MaxEvents == 2

----------------------------------------------------------------------------
(* types/subscription.ts and services/subscriptions.ts *)

SubscriptionTier == {"FREE", "PRO", "ENTERPRISE"}

Keys == {"k1"}

\* Number.MAX_SAFE_INTEGER is 2^53 - 1; TLC's integers are 32-bit, so the value
\* the admin branch returns is represented by the largest TLC integer.  It is
\* only ever compared with 0 and with the tier limits.
MAX_SAFE_INTEGER == 2147483647

TIER_CONFIGS ==
    [FREE |-> [rateLimitTokens |-> 10,
               rateLimitWindowMs |-> 60 * 1000,
               allowedEndpoints |-> {<<"/","a","p","i","/","t","r","u","s","t">>,
                                     <<"/","a","p","i","/","h","e","a","l","t","h">>}],
     PRO |-> [rateLimitTokens |-> 100,
              rateLimitWindowMs |-> 60 * 1000,
              allowedEndpoints |-> {<<"/","a","p","i","/","t","r","u","s","t">>,
                                    <<"/","a","p","i","/","h","e","a","l","t","h">>,
                                    <<"/","a","p","i","/","b","o","n","d">>}],
     ENTERPRISE |-> [rateLimitTokens |-> 1000,
                     rateLimitWindowMs |-> 60 * 1000,
                     allowedEndpoints |-> {<<"*">>}]]

NoRecord == [absent |-> TRUE]
NoUsage == [absent |-> TRUE]
NoCalls == [tier |-> "none", n |-> 0]
MixedCalls == [tier |-> "mixed", n |-> 0]

\* The clock readings a call may see: the time elapsed since the last reading.
WindowMs == TIER_CONFIGS["FREE"].rateLimitWindowMs
Elapsed == {0, WindowMs - 1, WindowMs}
MaxNow == MaxWindows * WindowMs
ClockReadings == {t \in {now + d : d \in Elapsed} : t <= MaxNow}

\* registerKey: the record it builds (createdAt is the clock reading).
NewRecord(key, tier, isAdminOverride, t) ==
    [key |-> key, tier |-> tier, createdAt |-> t, isAdminOverride |-> isAdminOverride]

\* registerKey, were it to start the key's usage afresh
registerKeyClearsUsage(key, tier, isAdminOverride, t) ==
    /\ apiKeys' = [apiKeys EXCEPT ![key] = NewRecord(key, tier, isAdminOverride, t)]
    /\ quotaUsages' = [quotaUsages EXCEPT ![key] = NoUsage]
    /\ now' = t
    /\ result' = [op |-> "registerKey", record |-> NewRecord(key, tier, isAdminOverride, t)]
    /\ UNCHANGED <<callsInWindow, admitted, wiped>>

registerKey(key, tier, isAdminOverride, t) ==
    /\ apiKeys' = [apiKeys EXCEPT ![key] = NewRecord(key, tier, isAdminOverride, t)]
    /\ now' = t
    /\ result' = [op |-> "registerKey", record |-> NewRecord(key, tier, isAdminOverride, t)]
    /\ UNCHANGED <<quotaUsages, callsInWindow, admitted, wiped>>

getKey(key) == apiKeys[key]

\* line 91: the window of `usage` is over at clock reading t
WindowExpiredStrict(usage, t, config) ==
    t - usage.windowStartMs > config.rateLimitWindowMs
WindowExpired(usage, t, config) ==
    t - usage.windowStartMs >= config.rateLimitWindowMs

\* lines 88-96: the usage the call works on
StartsFreshWindow(key, t, config) ==
    \/ quotaUsages[key] = NoUsage
    \/ WindowExpired(quotaUsages[key], t, config)

\* the usage, were the ledger to hold one window for all keys
CurrentUsageOfAnyKey(key, t, config) ==
    IF \A k \in DOMAIN quotaUsages : quotaUsages[k] = NoUsage
    THEN [tokensUsed |-> 0, windowStartMs |-> t]
    ELSE LET k == CHOOSE k \in DOMAIN quotaUsages : quotaUsages[k] # NoUsage
         IN  IF WindowExpired(quotaUsages[k], t, config)
             THEN [tokensUsed |-> 0, windowStartMs |-> t]
             ELSE quotaUsages[k]

CurrentUsage(key, t, config) ==
    IF StartsFreshWindow(key, t, config)
    THEN [tokensUsed |-> 0, windowStartMs |-> t]
    ELSE quotaUsages[key]

\* line 98
QuotaExhaustedOffByOne(usage, config) ==
    usage.tokensUsed > config.rateLimitTokens
QuotaExhausted(usage, config) ==
    usage.tokensUsed >= config.rateLimitTokens

\* line 82
BypassNever(keyRecord) == FALSE
BypassesQuota(keyRecord) == keyRecord.isAdminOverride

\* lines 82-84: the ledger after an admin call
AdminLedgerCounted(keyRecord, t) ==
    [quotaUsages EXCEPT ![keyRecord.key] =
        IF quotaUsages[keyRecord.key] = NoUsage
        THEN [tokensUsed |-> 1, windowStartMs |-> t]
        ELSE [tokensUsed |-> quotaUsages[keyRecord.key].tokensUsed + 1,
              windowStartMs |-> quotaUsages[keyRecord.key].windowStartMs]]
AdminLedger(keyRecord, t) == quotaUsages

\* lines 98-101: what a rejected call stores and returns
RejectedUsageRestarted(usage, t) == [usage EXCEPT !.windowStartMs = t]
RejectedUsage(usage, t) == usage

RejectedRemainingUnclamped(usage, config) == config.rateLimitTokens - usage.tokensUsed
RejectedRemaining(usage, config) == 0

\* lines 103-109: what an admitted call stores and returns
AdmittedUsageLost(usage) == usage
AdmittedUsage(usage) == [usage EXCEPT !.tokensUsed = usage.tokensUsed + 1]
AdmittedRemaining(usage, config) == config.rateLimitTokens - AdmittedUsage(usage).tokensUsed

\* history of the calls of one window, as a caller's loop counter would keep it:
\* the tier the window's calls were made with and how many there were, counted
\* up to MaxOver beyond the tier's limit.
CountCall(key, tier, fresh) ==
    LET c == callsInWindow[key]
        cap == TIER_CONFIGS[tier].rateLimitTokens + MaxOver
    IN  IF fresh THEN [tier |-> tier, n |-> 1]
        ELSE IF c.tier = tier THEN [tier |-> tier, n |-> IF c.n < cap THEN c.n + 1 ELSE cap]
        ELSE MixedCalls

\* history of the answers of one stored window, as the callers together would
\* tally them: the windowStartMs stored after the call names the window, the
\* tier is the one every call of the window was made with ("mixed" otherwise,
\* and then nothing is counted), n the calls answered allowed=true, counted up
\* to MaxOver beyond the limit.
NoneAdmitted == [windowStartMs |-> 0, tier |-> "none", n |-> 0]

CountAdmitted(key, tier, stored, allowed) ==
    LET a == admitted[key]
        cap == TIER_CONFIGS[tier].rateLimitTokens + MaxOver
        one == IF allowed THEN 1 ELSE 0
    IN  IF a.tier = "none" \/ a.windowStartMs # stored.windowStartMs
        THEN [windowStartMs |-> stored.windowStartMs, tier |-> tier, n |-> one]
        ELSE IF a.tier = tier
        THEN [a EXCEPT !.n = IF a.n + one < cap THEN a.n + one ELSE cap]
        ELSE [windowStartMs |-> stored.windowStartMs, tier |-> "mixed", n |-> 0]

\* history of reset(): what it discarded for a key (nothing stored, a window in
\* use, a window used up), and whether the key has been used once since.
NotWiped == [ledger |-> "none", calls |-> 0]

Discarded(key) ==
    [ledger |-> IF quotaUsages[key] = NoUsage THEN "blank"
                ELSE IF /\ apiKeys[key] # NoRecord
                        /\ quotaUsages[key].tokensUsed
                              >= TIER_CONFIGS[apiKeys[key].tier].rateLimitTokens
                     THEN "exhausted"
                     ELSE "used",
     calls |-> 0]

UsedAgain(key) ==
    IF wiped[key].ledger # "none" /\ wiped[key].calls = 0
    THEN [wiped[key] EXCEPT !.calls = 1]
    ELSE NotWiped

\* The call as `result` keeps it: the record passed, the ledger entry read at
\* line 88 (found; NoUsage in the admin branch, which reads nothing), whether a
\* fresh window was started, and the returned {allowed, remaining}.
QuotaResult(keyRecord, found, fresh, allowed, remaining) ==
    [op |-> "checkAndIncrementQuota", key |-> keyRecord.key, tier |-> keyRecord.tier,
     isAdminOverride |-> keyRecord.isAdminOverride, found |-> found, fresh |-> fresh,
     allowed |-> allowed, remaining |-> remaining]

checkAndIncrementQuota(keyRecord, t) ==
    LET key == keyRecord.key
        config == TIER_CONFIGS[keyRecord.tier]
        fresh == StartsFreshWindow(key, t, config)
        usage == CurrentUsage(key, t, config)
    IN  IF BypassesQuota(keyRecord)
        THEN /\ quotaUsages' = AdminLedger(keyRecord, t)
             /\ result' = QuotaResult(keyRecord, NoUsage, FALSE, TRUE, MAX_SAFE_INTEGER)
             /\ UNCHANGED <<apiKeys, now, callsInWindow, admitted, wiped>>
        ELSE /\ now' = t
             /\ callsInWindow' = [callsInWindow EXCEPT ![key] = CountCall(key, keyRecord.tier, fresh)]
             /\ wiped' = [wiped EXCEPT ![key] = UsedAgain(key)]
             /\ UNCHANGED apiKeys
             /\ IF QuotaExhausted(usage, config)
                THEN /\ quotaUsages' = [quotaUsages EXCEPT ![key] = RejectedUsage(usage, t)]
                     /\ admitted' = [admitted EXCEPT ![key] =
                                        CountAdmitted(key, keyRecord.tier, RejectedUsage(usage, t), FALSE)]
                     /\ result' = QuotaResult(keyRecord, quotaUsages[key], fresh, FALSE, RejectedRemaining(usage, config))
                ELSE /\ quotaUsages' = [quotaUsages EXCEPT ![key] = AdmittedUsage(usage)]
                     /\ admitted' = [admitted EXCEPT ![key] =
                                        CountAdmitted(key, keyRecord.tier, AdmittedUsage(usage), TRUE)]
                     /\ result' = QuotaResult(keyRecord, quotaUsages[key], fresh, TRUE, AdmittedRemaining(usage, config))

\* String.prototype.startsWith
StartsWithWhole(path, prefix) == path = prefix
StartsWith(path, prefix) ==
    /\ Len(prefix) <= Len(path)
    /\ SubSeq(path, 1, Len(prefix)) = prefix

\* isEndpointAllowed, were the admin override to open every path
isEndpointAllowedAdminBypass(keyRecord, path) ==
    LET config == TIER_CONFIGS[keyRecord.tier]
    IN  IF keyRecord.isAdminOverride \/ <<"*">> \in config.allowedEndpoints
        THEN TRUE
        ELSE \E allowed \in config.allowedEndpoints : StartsWith(path, allowed)

isEndpointAllowed(keyRecord, path) ==
    LET config == TIER_CONFIGS[keyRecord.tier]
    IN  IF <<"*">> \in config.allowedEndpoints
        THEN TRUE
        ELSE \E allowed \in config.allowedEndpoints : StartsWith(path, allowed)

resetRegistryOnly ==
    /\ apiKeys' = [k \in DOMAIN apiKeys |-> NoRecord]
    /\ callsInWindow' = [k \in DOMAIN apiKeys |-> NoCalls]
    /\ admitted' = [k \in DOMAIN apiKeys |-> NoneAdmitted]
    /\ wiped' = [k \in DOMAIN apiKeys |-> Discarded(k)]
    /\ result' = [op |-> "reset"]
    /\ UNCHANGED <<quotaUsages, now>>
reset ==
    /\ apiKeys' = [k \in DOMAIN apiKeys |-> NoRecord]
    /\ quotaUsages' = [k \in DOMAIN apiKeys |-> NoUsage]
    /\ callsInWindow' = [k \in DOMAIN apiKeys |-> NoCalls]
    /\ admitted' = [k \in DOMAIN apiKeys |-> NoneAdmitted]
    /\ wiped' = [k \in DOMAIN apiKeys |-> Discarded(k)]
    /\ result' = [op |-> "reset"]
    /\ UNCHANGED now

----------------------------------------------------------------------------
(* The quota service and its callers *)

QuotaInit ==
    /\ apiKeys = [k \in Keys |-> NoRecord]
    /\ quotaUsages = [k \in Keys |-> NoUsage]
    /\ now = 0
    /\ result = [op |-> "none"]
    /\ callsInWindow = [k \in Keys |-> NoCalls]
    /\ admitted = [k \in Keys |-> NoneAdmitted]
    /\ wiped = [k \in Keys |-> NotWiped]

StoreIdle ==
    /\ identities = {}
    /\ bonds = {}
    /\ attestations = {}
    /\ slashEvents = {}
    /\ scoreHistory = {}
    /\ seqs = [bonds |-> 0, attestations |-> 0, slashEvents |-> 0, scoreHistory |-> 0]
    /\ dbNow = 0
    /\ dbResult = [op |-> "none", outcome |-> "none", value |-> "none"]
    /\ schema = [tables |-> {"identities", "bonds", "attestations", "slash_events",
                              "score_history"},
                 create |-> 0, drop |-> 0]

\* no request handled, no thread inside the service, no event delivered
Threads == {"t1", "t2"}
NoRequest == [mw |-> "none"]
NoThread == [pc |-> "idle"]
NoEvent == [pc |-> "idle"]
Events == 1..MaxEvents

EdgeIdle ==
    /\ http = NoRequest
    /\ threads = [th \in Threads |-> NoThread]
    /\ recent = [sub |-> 0, admitted |-> <<>>]
    /\ listener = [contract |-> "null", replaced |-> {},
                   handlers |-> [e \in Events |-> NoEvent],
                   calls |-> <<>>]

Init == QuotaInit /\ StoreIdle /\ EdgeIdle

Register ==
    \E key \in Keys, tier \in SubscriptionTier, admin \in BOOLEAN, t \in ClockReadings :
        registerKey(key, tier, admin, t)

\* a caller looks its record up and has the quota checked (as enforceQuota does
\* with the record requireApiKey attached)
Call ==
    \E key \in Keys, t \in ClockReadings :
        /\ getKey(key) # NoRecord
        /\ checkAndIncrementQuota(getKey(key), t)

Reset == reset

Next ==
    \/ Register /\ UNCHANGED <<storeVars, edgeVars>>
    \/ Call /\ UNCHANGED <<storeVars, edgeVars>>
    \/ Reset /\ UNCHANGED <<storeVars, edgeVars>>

Spec == Init /\ [][Next]_vars

----------------------------------------------------------------------------
(* EndpointSpec: keys are registered and asked about request paths *)

ApiTrust == <<"/","a","p","i","/","t","r","u","s","t">>
ApiHealth == <<"/","a","p","i","/","h","e","a","l","t","h">>
ApiBond == <<"/","a","p","i","/","b","o","n","d">>

Paths ==
    {ApiTrust, ApiHealth, ApiBond,
     ApiTrust \o <<"/","0","x","1","2","3">>,     \* /api/trust/0x123
     ApiBond \o <<"/","1","2","3">>,              \* /api/bond/123
     ApiHealth \o <<"/">>,                        \* /api/health/
     ApiTrust \o <<"e","d">>,                     \* /api/trusted
     ApiBond \o <<"s">>,                          \* /api/bonds
     SubSeq(ApiTrust, 1, 9),                      \* /api/trus
     SubSeq(ApiBond, 1, 4),                       \* /api
     <<"/">>, <<>>, <<"*">>,
     <<"/","v","1">> \o ApiTrust,                 \* /v1/api/trust
     <<"/","A","P","I","/","T","R","U","S","T">>, \* /API/TRUST
     <<"/","a","p","i","/","s","c","o","r","e">>} \* /api/score

\* a caller asks whether the record of its key may use a path (as enforceQuota
\* does with req.path)
CheckEndpoint ==
    \E key \in Keys, path \in Paths :
        /\ getKey(key) # NoRecord
        /\ result' = [op |-> "isEndpointAllowed", key |-> key,
                      tier |-> getKey(key).tier, path |-> path,
                      allowed |-> isEndpointAllowed(getKey(key), path)]
        /\ UNCHANGED <<apiKeys, quotaUsages, now, callsInWindow, admitted, wiped>>

EndpointNext ==
    \/ Register /\ UNCHANGED <<storeVars, edgeVars>>
    \/ CheckEndpoint /\ UNCHANGED <<storeVars, edgeVars>>

EndpointSpec == Init /\ [][EndpointNext]_vars

----------------------------------------------------------------------------
(* middleware/auth.ts: requireApiKey, in the two forms the repository holds *)

\* req.headers['x-api-key']: a key, the empty string, or no header at all
NoHeader == "undefined"
ApiKeyHeaders == Keys \cup {NoHeader, ""}
Falsy(apiKey) == apiKey = NoHeader \/ apiKey = ""

\* subscriptionService.getKey(apiKey), undefined being NoRecord
Lookup(apiKey) == IF apiKey \in Keys THEN getKey(apiKey) ELSE NoRecord

\* record.expiresAt is set by assignment to the registered record
HasExpiry(record) == "expiresAt" \in DOMAIN record
ExpiryTimes == {0, WindowMs - 1}

SetExpiresAt(key, at) ==
    /\ getKey(key) # NoRecord
    /\ apiKeys' = [apiKeys EXCEPT ![key] = [expiresAt |-> at] @@ getKey(key)]
    /\ result' = [op |-> "expiresAt"]
    /\ UNCHANGED <<quotaUsages, now, callsInWindow, admitted, wiped>>

\* record.expiresAt && new Date() > record.expiresAt
Expired(record, t) == HasExpiry(record) /\ t > record.expiresAt

\* what a middleware run leaves behind: the response sent (status 0 and
\* error "" when none was), the record and the authKey on the request, the
\* X-RateLimit-Remaining header (NotSet when setHeader was not called), how
\* often next was called
NoAuthKey == [key |-> "undefined", scope |-> "undefined"]
NotSet == 0 - 1
Responded(mw, req, status, error) ==
    [mw |-> mw, req |-> req, status |-> status, error |-> error,
     apiKeyRecord |-> req.apiKeyRecord, authKey |-> req.authKey,
     remaining |-> NotSet, nextCalls |-> 0]
Attached(mw, req, record, authKey) ==
    [mw |-> mw, req |-> req, status |-> 0, error |-> "",
     apiKeyRecord |-> record, authKey |-> authKey,
     remaining |-> NotSet, nextCalls |-> 1]

\* the clock is read only when the record has an expiresAt
ReadsClock(apiKey) == ~Falsy(apiKey) /\ Lookup(apiKey) # NoRecord /\ HasExpiry(Lookup(apiKey))

\* requireApiKey, the form without scopes
requireApiKey(req, t) ==
    LET record == Lookup(req.apiKey)
    IN  /\ http' =
              IF Falsy(req.apiKey)
              THEN Responded("requireApiKey", req, 401, "Missing x-api-key header")
              ELSE IF record = NoRecord
              THEN Responded("requireApiKey", req, 403, "Invalid or inactive API key")
              ELSE IF Expired(record, t)
              THEN Responded("requireApiKey", req, 403, "API key has expired")
              ELSE Attached("requireApiKey", req, record, req.authKey)
        /\ now' = IF ReadsClock(req.apiKey) THEN t ELSE now
        /\ UNCHANGED <<apiKeys, quotaUsages, result, callsInWindow, admitted, wiped>>

\* ApiScope and the scope of a record
ApiScope == {"public", "enterprise"}
NoScope == "undefined"
ScopeOf(record) ==
    IF record.tier = "ENTERPRISE" \/ record.isAdminOverride THEN "enterprise" ELSE "public"

\* handleRequest: requireApiKey(req, res, next) calls it without a scope,
\* requireApiKey(scope) with the scope
HandleRequestResponse(req, requiredScope, t) ==
    LET record == Lookup(req.apiKey)
    IN  IF Falsy(req.apiKey)
        THEN Responded("handleRequest", req, 401, "Unauthorized")
        ELSE IF record = NoRecord
        THEN Responded("handleRequest", req, 401, "Unauthorized")
        ELSE IF Expired(record, t)
        THEN Responded("handleRequest", req, 403, "API key has expired")
        ELSE IF requiredScope = "enterprise" /\ ScopeOf(record) # "enterprise"
        THEN Responded("handleRequest", req, 403, "Forbidden")
        ELSE Attached("handleRequest", req, record,
                      [key |-> req.apiKey, scope |-> ScopeOf(record)])

handleRequest(req, requiredScope, t) ==
    /\ http' = HandleRequestResponse(req, requiredScope, t)
    /\ now' = IF ReadsClock(req.apiKey) THEN t ELSE now
    /\ UNCHANGED <<apiKeys, quotaUsages, result, callsInWindow, admitted, wiped>>

\* the requests the middleware gets: no record and no authKey on them yet
AuthRequests == [apiKey : ApiKeyHeaders, apiKeyRecord : {NoRecord}, authKey : {NoAuthKey}]

Expire == \E key \in Keys, at \in ExpiryTimes : SetExpiresAt(key, at)
RequireApiKey == \E req \in AuthRequests, t \in ClockReadings : requireApiKey(req, t)
HandleRequest ==
    \E req \in AuthRequests, scope \in ApiScope \cup {NoScope}, t \in ClockReadings :
        handleRequest(req, scope, t)

AuthNext ==
    \/ Register /\ UNCHANGED <<storeVars, edgeVars>>
    \/ Expire /\ UNCHANGED <<storeVars, edgeVars>>
    \/ Reset /\ UNCHANGED <<storeVars, edgeVars>>
    \/ RequireApiKey /\ UNCHANGED <<storeVars, threads, recent, listener>>
    \/ HandleRequest /\ UNCHANGED <<storeVars, threads, recent, listener>>

AuthSpec == Init /\ [][AuthNext]_vars

----------------------------------------------------------------------------
(* middleware/rateLimit.ts: enforceQuota, alone and behind requireApiKey *)

MissingRecord == "Missing API Key Record. Check middleware order."
AccessDenied(tier) ==
    CASE tier = "FREE" -> "Endpoint access denied for tier: FREE"
      [] tier = "PRO" -> "Endpoint access denied for tier: PRO"
      [] tier = "ENTERPRISE" -> "Endpoint access denied for tier: ENTERPRISE"
RateLimited(req) == Responded("enforceQuota", req, 429, "Rate limit exceeded")
Admitted(req, remaining) ==
    [mw |-> "enforceQuota", req |-> req, status |-> 0, error |-> "",
     apiKeyRecord |-> req.apiKeyRecord, authKey |-> req.authKey,
     remaining |-> remaining, nextCalls |-> 1]

\* enforceQuota, were the quota checked before the endpoint
enforceQuotaQuotaFirst(req, t) ==
    LET record == req.apiKeyRecord
    IN  IF record = NoRecord
        THEN /\ http' = Responded("enforceQuota", req, 500, MissingRecord)
             /\ UNCHANGED quotaVars
        ELSE /\ checkAndIncrementQuota(record, t)
             /\ http' = IF ~result'.allowed THEN RateLimited(req)
                         ELSE IF ~isEndpointAllowed(record, req.path)
                         THEN Responded("enforceQuota", req, 403, AccessDenied(record.tier))
                         ELSE Admitted(req, result'.remaining)

\* enforceQuota, were the return after the 429 missing
enforceQuotaFallsThrough(req, t) ==
    LET record == req.apiKeyRecord
    IN  IF record = NoRecord
        THEN /\ http' = Responded("enforceQuota", req, 500, MissingRecord)
             /\ UNCHANGED quotaVars
        ELSE IF ~isEndpointAllowed(record, req.path)
        THEN /\ http' = Responded("enforceQuota", req, 403, AccessDenied(record.tier))
             /\ UNCHANGED quotaVars
        ELSE /\ checkAndIncrementQuota(record, t)
             /\ http' = IF ~result'.allowed
                         THEN [RateLimited(req) EXCEPT !.remaining = result'.remaining,
                                                       !.nextCalls = 1]
                         ELSE Admitted(req, result'.remaining)

enforceQuota(req, t) ==
    LET record == req.apiKeyRecord
    IN  IF record = NoRecord
        THEN /\ http' = Responded("enforceQuota", req, 500, MissingRecord)
             /\ UNCHANGED quotaVars
        ELSE IF ~isEndpointAllowed(record, req.path)
        THEN /\ http' = Responded("enforceQuota", req, 403, AccessDenied(record.tier))
             /\ UNCHANGED quotaVars
        ELSE /\ checkAndIncrementQuota(record, t)
             /\ http' = IF ~result'.allowed THEN RateLimited(req)
                         ELSE Admitted(req, result'.remaining)

\* the paths of the requests: /api/trust/123 and /api/bond/123
GatewayPaths == {ApiTrust \o <<"/","1","2","3">>, ApiBond \o <<"/","1","2","3">>}

\* the requests enforceQuota is handed directly: without a record, with the
\* record a key is registered with, with a record made up for the request
DirectRecords ==
    {NoRecord}
    \cup {getKey(key) : key \in {k \in Keys : getKey(k) # NoRecord}}
    \cup {NewRecord(key, "FREE", FALSE, 0) : key \in Keys}
DirectRequests == [apiKeyRecord : DirectRecords, authKey : {NoAuthKey}, path : GatewayPaths]

EnforceQuota == \E req \in DirectRequests, t \in ClockReadings : enforceQuota(req, t)

\* enforceQuota entered within a call in which requireApiKey has read the
\* clock at t (new Date(), the record having an expiresAt): t stays the last
\* reading unless checkAndIncrementQuota reads the clock in its turn
\* (Date.now()), at read >= t
enforceQuotaClockRead(req, t, read) ==
    LET record == req.apiKeyRecord
    IN  IF ~isEndpointAllowed(record, req.path)
        THEN /\ http' = Responded("enforceQuota", req, 403, AccessDenied(record.tier))
             /\ now' = t
             /\ UNCHANGED <<apiKeys, quotaUsages, result, callsInWindow, admitted, wiped>>
        ELSE IF BypassesQuota(record)
        THEN /\ quotaUsages' = AdminLedger(record, t)
             /\ result' = QuotaResult(record, NoUsage, FALSE, TRUE, MAX_SAFE_INTEGER)
             /\ http' = Admitted(req, MAX_SAFE_INTEGER)
             /\ now' = t
             /\ UNCHANGED <<apiKeys, callsInWindow, admitted, wiped>>
        ELSE /\ checkAndIncrementQuota(record, read)
             /\ http' = IF ~result'.allowed THEN RateLimited(req)
                         ELSE Admitted(req, result'.remaining)

\* a route mounted as requireApiKey, enforceQuota: next of the first is the
\* second, run on the same request, with the record and the authKey the first
\* has put on it, within the same call.  The call reads the clock up to two
\* times: requireApiKey at t when the record has an expiresAt, and
\* checkAndIncrementQuota at read, no earlier than t.
RouteRequests ==
    [apiKey : ApiKeyHeaders, apiKeyRecord : {NoRecord}, authKey : {NoAuthKey},
     path : GatewayPaths]

ProtectedRoute ==
    \E req \in RouteRequests, t \in ClockReadings, read \in ClockReadings :
        LET auth == HandleRequestResponse(req, NoScope, t)
            behind == [req EXCEPT !.apiKeyRecord = auth.apiKeyRecord,
                                  !.authKey = auth.authKey]
        IN  /\ t <= read
            /\ IF auth.nextCalls = 0
               THEN t = read /\ handleRequest(req, NoScope, t)
               ELSE IF ReadsClock(req.apiKey)
               THEN enforceQuotaClockRead(behind, t, read)
               ELSE t = read /\ enforceQuota(behind, read)

\* a registered key is given an expiresAt within the first window
GatewayExpire == \E key \in Keys : SetExpiresAt(key, WindowMs - 1)

\* the keys registered: every tier, a PRO and an ENTERPRISE key with the
\* override only (their quotas are used up in Spec)
GatewayRegister ==
    \E key \in Keys, tier \in SubscriptionTier, admin \in BOOLEAN, t \in ClockReadings :
        /\ tier # "FREE" => admin
        /\ registerKey(key, tier, admin, t)

GatewayNext ==
    \/ GatewayRegister /\ UNCHANGED <<storeVars, edgeVars>>
    \/ GatewayExpire /\ UNCHANGED <<storeVars, edgeVars>>
    \/ Reset /\ UNCHANGED <<storeVars, edgeVars>>
    \/ EnforceQuota /\ UNCHANGED <<storeVars, threads, recent, listener>>
    \/ ProtectedRoute /\ UNCHANGED <<storeVars, threads, recent, listener>>

GatewaySpec == Init /\ [][GatewayNext]_vars

----------------------------------------------------------------------------
(* OverrideSpec: keys of every tier, with and without the admin override,   *)
(* are registered, given an expiry, called and asked about paths            *)

\* the keys registered: a FREE key with and without the override, a PRO and
\* an ENTERPRISE key with it
OverrideRegister ==
    \E key \in Keys, tier \in SubscriptionTier, admin \in BOOLEAN :
        /\ tier # "FREE" => admin
        /\ registerKey(key, tier, admin, now)

\* the paths asked about: /api/trust/123, /api/bond/123 and /api/score
OverridePaths == GatewayPaths \cup {<<"/","a","p","i","/","s","c","o","r","e">>}

OverrideCheck ==
    \E key \in Keys, path \in OverridePaths :
        /\ getKey(key) # NoRecord
        /\ result' = [op |-> "isEndpointAllowed", key |-> key,
                      tier |-> getKey(key).tier, path |-> path,
                      allowed |-> isEndpointAllowed(getKey(key), path)]
        /\ UNCHANGED <<apiKeys, quotaUsages, now, callsInWindow, admitted, wiped>>

OverrideNext ==
    \/ OverrideRegister /\ UNCHANGED <<storeVars, edgeVars>>
    \/ Expire /\ UNCHANGED <<storeVars, edgeVars>>
    \/ Call /\ UNCHANGED <<storeVars, edgeVars>>
    \/ OverrideCheck /\ UNCHANGED <<storeVars, edgeVars>>

OverrideSpec == Init /\ [][OverrideNext]_vars

----------------------------------------------------------------------------
(* RaceSpec: checkAndIncrementQuota in a runtime with threads, the read of   *)
(* the ledger (lines 86-96) and its write-back (lines 98-109) being two      *)
(* steps with nothing to keep a second caller out in between                 *)

\* `usage` is a reference.  A caller that finds a running window holds the
\* object stored in the ledger ("stored"): it sees every tokensUsed += 1 made
\* on that object.  A caller that starts a fresh window (lines 92-95) holds an
\* object of its own, named by a tag no other caller holds.  The `usage`
\* field of a caller is the present value of the object it holds.
Stored == "stored"
FreeTag == CHOOSE tag \in Threads :
               \A o \in Threads : threads[o] # NoThread => threads[o].obj # tag

\* lines 86-96: the caller reads the clock and the ledger entry of its key
\* and holds the usage it will work on
ReadLedger(th, keyRecord, t) ==
    LET config == TIER_CONFIGS[keyRecord.tier]
        fresh == StartsFreshWindow(keyRecord.key, t, config)
    IN  /\ threads[th] = NoThread
        /\ ~BypassesQuota(keyRecord)
        /\ threads' = [threads EXCEPT ![th] =
                [pc |-> "read", keyRecord |-> keyRecord,
                 found |-> quotaUsages[keyRecord.key],
                 fresh |-> fresh,
                 obj |-> IF fresh THEN FreeTag ELSE Stored,
                 usage |-> CurrentUsage(keyRecord.key, t, config),
                 t |-> t]]
        /\ now' = t
        /\ UNCHANGED <<apiKeys, quotaUsages, result, callsInWindow, admitted, wiped>>

\* the callers after `th` has left `written` under `key` (lines 99, 103-104):
\* who holds the object of th sees its new value, and holds the stored object
\* from now on; who held the stored object while th stored another one
\* keeps the old object, which is no longer in the ledger
Overtaken(th, key, written) ==
    LET mine == threads[th].obj
    IN  [o \in Threads |->
            IF o = th THEN NoThread
            ELSE IF threads[o] = NoThread \/ threads[o].keyRecord.key # key
            THEN threads[o]
            ELSE IF threads[o].obj = mine
            THEN [threads[o] EXCEPT !.usage = written, !.obj = Stored]
            ELSE IF threads[o].obj = Stored
            THEN [threads[o] EXCEPT !.obj = mine]
            ELSE threads[o]]

\* lines 98-109: the caller decides on the object it holds, changes it,
\* stores it under the key and returns
WriteBack(th) ==
    LET local == threads[th]
        keyRecord == local.keyRecord
        key == keyRecord.key
        config == TIER_CONFIGS[keyRecord.tier]
    IN  /\ local # NoThread
        /\ IF QuotaExhausted(local.usage, config)
           THEN /\ quotaUsages' = [quotaUsages EXCEPT ![key] = RejectedUsage(local.usage, local.t)]
                /\ threads' = Overtaken(th, key, RejectedUsage(local.usage, local.t))
                /\ admitted' = [admitted EXCEPT ![key] =
                        CountAdmitted(key, keyRecord.tier, RejectedUsage(local.usage, local.t), FALSE)]
                /\ result' = QuotaResult(keyRecord, local.found, local.fresh, FALSE,
                                         RejectedRemaining(local.usage, config))
           ELSE /\ quotaUsages' = [quotaUsages EXCEPT ![key] = AdmittedUsage(local.usage)]
                /\ threads' = Overtaken(th, key, AdmittedUsage(local.usage))
                /\ admitted' = [admitted EXCEPT ![key] =
                        CountAdmitted(key, keyRecord.tier, AdmittedUsage(local.usage), TRUE)]
                /\ result' = QuotaResult(keyRecord, local.found, local.fresh, TRUE,
                                         AdmittedRemaining(local.usage, config))
        /\ UNCHANGED <<apiKeys, now, callsInWindow, wiped>>

\* the key is registered once, with tier FREE and without the override
RaceRegister ==
    \E key \in Keys, t \in ClockReadings :
        /\ getKey(key) = NoRecord
        /\ registerKey(key, "FREE", FALSE, t)

RaceRead ==
    \E th \in Threads, key \in Keys, t \in ClockReadings :
        /\ getKey(key) # NoRecord
        /\ ReadLedger(th, getKey(key), t)

RaceWrite == \E th \in Threads : WriteBack(th)

RaceNext ==
    \/ RaceRegister /\ UNCHANGED <<storeVars, edgeVars>>
    \/ RaceRead /\ UNCHANGED <<storeVars, http, recent, listener>>
    \/ RaceWrite /\ UNCHANGED <<storeVars, http, recent, listener>>

RaceSpec == Init /\ [][RaceNext]_vars

----------------------------------------------------------------------------
(* BurstSpec: a FREE key without the override is called, over three windows, *)
(* at times that fall early or late within the millisecond Date.now() reads  *)

\* Date.now() is a whole number of milliseconds: time runs in ticks, and the
\* clock reads the tick divided by TicksPerMs
TicksPerMs == 2
DateNow(tick) == tick \div TicksPerMs
Tick2(ms, sub) == ms * TicksPerMs + sub
TicksPerWindow == WindowMs * TicksPerMs

\* How many window lengths the clock may run in BurstSpec: three windows can
\* open (at 0, 60000 and 120000), so that a key is admitted more than twice
\* its limit in a run and the length of the interval is what bounds a burst.
MaxBurstWindows == 2
BurstReadings == {t \in {now + d : d \in Elapsed} : t <= MaxBurstWindows * WindowMs}

\* the times a call may be made at, given the time of the last one: within
\* the millisecond of the last call at the same instant, within a later
\* millisecond early or late
BurstTimes ==
    {tm \in [ms : BurstReadings, sub : 0..(TicksPerMs - 1)] :
        tm.ms = now => tm.sub = recent.sub}

\* the key is registered early or late within millisecond 0
BurstRegister ==
    \E key \in Keys, sub \in 0..(TicksPerMs - 1) :
        /\ getKey(key) = NoRecord
        /\ registerKey(key, "FREE", FALSE, now)
        /\ recent' = [recent EXCEPT !.sub = sub]

\* one call at time tm: the service reads DateNow of it; the caller notes the
\* time when the call is admitted
BurstCall ==
    \E key \in Keys, tm \in BurstTimes :
        /\ getKey(key) # NoRecord
        /\ checkAndIncrementQuota(getKey(key), DateNow(Tick2(tm.ms, tm.sub)))
        /\ recent' = [sub |-> tm.sub,
                      admitted |-> IF result'.allowed
                                   THEN Append(recent.admitted, Tick2(tm.ms, tm.sub))
                                   ELSE recent.admitted]

BurstNext ==
    \/ BurstRegister /\ UNCHANGED <<storeVars, http, threads, listener>>
    \/ BurstCall /\ UNCHANGED <<storeVars, http, threads, listener>>

BurstSpec == Init /\ [][BurstNext]_vars

----------------------------------------------------------------------------
(* IsolationSpec: two keys are registered, registered again and called *)

IsolationKeys == {"k1", "k2"}

IsolationInit ==
    /\ apiKeys = [k \in IsolationKeys |-> NoRecord]
    /\ quotaUsages = [k \in IsolationKeys |-> NoUsage]
    /\ now = 0
    /\ result = [op |-> "none"]
    /\ callsInWindow = [k \in IsolationKeys |-> NoCalls]
    /\ admitted = [k \in IsolationKeys |-> NoneAdmitted]
    /\ wiped = [k \in IsolationKeys |-> NotWiped]
    /\ StoreIdle
    /\ EdgeIdle

\* registerKey(key, tier, isAdminOverride = false): the third argument as the
\* caller passes it, <<>> when it is left out
FlagArguments == {<<>>, <<FALSE>>, <<TRUE>>}
DefaultFalse(argument) == IF argument = <<>> THEN FALSE ELSE argument[1]

\* the keys are registered FREE with or without the override, PRO and
\* ENTERPRISE with it (their quotas are used up in Spec)
RegisterArguments ==
    {a \in [key : IsolationKeys, tier : SubscriptionTier, flag : FlagArguments] :
        a.tier # "FREE" => DefaultFalse(a.flag)}

IsolationRegister ==
    \E a \in RegisterArguments :
        registerKey(a.key, a.tier, DefaultFalse(a.flag), now)

IsolationCall ==
    \E key \in IsolationKeys, t \in ClockReadings :
        /\ getKey(key) # NoRecord
        /\ checkAndIncrementQuota(getKey(key), t)

IsolationNext ==
    \/ IsolationRegister /\ UNCHANGED <<storeVars, edgeVars>>
    \/ IsolationCall /\ UNCHANGED <<storeVars, edgeVars>>

IsolationSpec == IsolationInit /\ [][IsolationNext]_vars

----------------------------------------------------------------------------
(* Bounds of the store model: how many INSERTs into the four tables with an   *)
(* id sequence a run makes (every one of them, failed or not, draws an id).   *)
(* TripleSpec, whose case of two bonds with an attestation each and a repeat  *)
(* of one of them takes five, makes up to MaxTripleInserts.                   *)

MaxInserts == 3
MaxTripleInserts == 5

----------------------------------------------------------------------------
(* db schema (CREATE_TABLE_STATEMENTS) as the database engine enforces it.   *)
(* Texts are sequences of characters; decimals (NUMERIC(20, 7)) are integers *)
(* counting units of 10^-7.                                                  *)

NullText == <<"NULL">>          \* SQL NULL in a TEXT column
StatusUndefined == "undefined"  \* CreateBondInput.status left out
DateUndefined == -1             \* CreateScoreHistoryInput.computedAt left out

\* SQLSTATE codes of the three violation kinds
UNIQUE_VIOLATION == "23505"
FOREIGN_KEY_VIOLATION == "23503"
CHECK_VIOLATION == "23514"
NoError == "none"

\* SQLSTATE codes of a statement naming a missing table, and of a DROP TABLE
\* (without CASCADE) whose table another table still references
UNDEFINED_TABLE == "42P01"
DEPENDENT_OBJECTS_STILL_EXIST == "2BP01"

Tables == {"identities", "bonds", "attestations", "slash_events", "score_history"}

\* the statements createSchema runs, in order: five tables, five indexes
CREATE_TABLE_STATEMENTS ==
    <<[create |-> "TABLE", name |-> "identities"],
      [create |-> "TABLE", name |-> "bonds"],
      [create |-> "TABLE", name |-> "attestations"],
      [create |-> "TABLE", name |-> "slash_events"],
      [create |-> "TABLE", name |-> "score_history"],
      [create |-> "INDEX", name |-> "bonds"],
      [create |-> "INDEX", name |-> "attestations"],
      [create |-> "INDEX", name |-> "attestations"],
      [create |-> "INDEX", name |-> "slash_events"],
      [create |-> "INDEX", name |-> "score_history"]>>

\* the tables dropSchema drops, in order
DROP_TABLE_STATEMENTS ==
    <<"score_history", "slash_events", "attestations", "bonds", "identities">>

\* REFERENCES: the tables a table's foreign keys name
References(table) ==
    CASE table = "identities" -> {}
      [] table = "bonds" -> {"identities"}
      [] table = "attestations" -> {"bonds", "identities"}
      [] table = "slash_events" -> {"bonds"}
      [] table = "score_history" -> {"identities"}

TableExists(table) == table \in schema.tables

RECURSIVE LTrim(_)
LTrim(str) ==
    IF str # <<>> /\ Head(str) = " " THEN LTrim(Tail(str)) ELSE str

RECURSIVE RTrim(_)
RTrim(str) ==
    IF str # <<>> /\ str[Len(str)] = " " THEN RTrim(SubSeq(str, 1, Len(str) - 1)) ELSE str

\* trim(text): spaces removed from both ends
Trim(str) == RTrim(LTrim(str))

\* CONSTRAINT identities_address_nonempty CHECK (length(trim(address)) > 0)
IdentitiesAddressNonempty(row) == Len(Trim(row.address)) > 0

\* bonds: CHECK (amount >= 0), CHECK (duration_days > 0), CHECK (status IN (...))
BondsAmountCheck(row) == row.amount >= 0
BondsDurationCheckNonNegative(row) == row.durationDays >= 0
BondsDurationCheck(row) == row.durationDays > 0
BondStatus == {"active", "released", "slashed"}
BondsStatusCheck(row) == row.status \in BondStatus

\* attestations: CHECK (score BETWEEN 0 AND 100)
AttestationsScoreCheckOpenEnded(row) == row.score >= 0
AttestationsScoreCheck(row) == row.score >= 0 /\ row.score <= 100

\* slash_events: CHECK (slash_amount > 0), slash_events_reason_nonempty
SlashEventsAmountCheck(row) == row.slashAmount > 0
SlashEventsReasonNonempty(row) == Len(Trim(row.reason)) > 0

\* score_history: CHECK (score BETWEEN 0 AND 100), CHECK (source IN (...))
ScoreHistoryScoreCheck(row) == row.score >= 0 /\ row.score <= 100
ScoreSource == {"bond", "attestation", "slash", "manual"}
ScoreHistorySourceCheck(row) == row.source \in ScoreSource

\* primary keys and the UNIQUE constraint
IdentitiesPrimaryKey(row) == \A i \in identities : i.address # row.address

\* the constraint, were it UNIQUE (attester_address, subject_address)
AttestationsUniqueAttesterSubject(row) ==
    \A a \in attestations :
        a.id # row.id =>
            ~(/\ a.attesterAddress = row.attesterAddress
              /\ a.subjectAddress = row.subjectAddress)
\* CONSTRAINT attestations_unique_attester_subject_per_bond
\*   UNIQUE (bond_id, attester_address, subject_address)
AttestationsUniqueAttesterSubjectPerBond(row) ==
    \A a \in attestations :
        a.id # row.id =>
            ~(/\ a.bondId = row.bondId
              /\ a.attesterAddress = row.attesterAddress
              /\ a.subjectAddress = row.subjectAddress)

\* REFERENCES identities(address) / REFERENCES bonds(id)
IdentityExists(address) == \E i \in identities : i.address = address
BondExists(id) == \E b \in bonds : b.id = id

BondsForeignKeysUnchecked(row) == TRUE
BondsForeignKeys(row) == IdentityExists(row.identityAddress)
AttestationsForeignKeys(row) ==
    /\ BondExists(row.bondId)
    /\ IdentityExists(row.attesterAddress)
    /\ IdentityExists(row.subjectAddress)
SlashEventsForeignKeys(row) == BondExists(row.bondId)
ScoreHistoryForeignKeys(row) == IdentityExists(row.identityAddress)

\* The error a statement writing `row` ends with.  The engine checks the row's
\* CHECK constraints first, then its unique indexes, and the foreign keys when
\* the statement ends.
StatementError(checks, unique, foreignKeys) ==
    IF ~checks THEN CHECK_VIOLATION
    ELSE IF ~unique THEN UNIQUE_VIOLATION
    ELSE IF ~foreignKeys THEN FOREIGN_KEY_VIOLATION
    ELSE NoError

IdentityInsertError(row) ==
    StatementError(IdentitiesAddressNonempty(row), IdentitiesPrimaryKey(row), TRUE)

BondInsertError(row) ==
    StatementError(BondsAmountCheck(row) /\ BondsDurationCheck(row) /\ BondsStatusCheck(row),
                   TRUE, BondsForeignKeys(row))

AttestationInsertError(row) ==
    StatementError(AttestationsScoreCheck(row),
                   AttestationsUniqueAttesterSubjectPerBond(row),
                   AttestationsForeignKeys(row))

SlashEventInsertError(row) ==
    StatementError(SlashEventsAmountCheck(row) /\ SlashEventsReasonNonempty(row),
                   TRUE, SlashEventsForeignKeys(row))

ScoreHistoryInsertError(row) ==
    StatementError(ScoreHistoryScoreCheck(row) /\ ScoreHistorySourceCheck(row),
                   TRUE, ScoreHistoryForeignKeys(row))

\* ON DELETE CASCADE: the rows that go with a set of deleted identities / bonds
BondsOfIdentities(addresses) == {b \in bonds : b.identityAddress \in addresses}

AttestationsCascadedBondsOnly(addresses, bondIds) ==
    {a \in attestations : a.bondId \in bondIds}
AttestationsCascaded(addresses, bondIds) ==
    {a \in attestations : \/ a.bondId \in bondIds
                          \/ a.attesterAddress \in addresses
                          \/ a.subjectAddress \in addresses}

SlashEventsCascadedNone(bondIds) == {}
SlashEventsCascaded(bondIds) == {s \in slashEvents : s.bondId \in bondIds}

ScoreHistoryCascadedAll(addresses) == scoreHistory
ScoreHistoryCascaded(addresses) == {h \in scoreHistory : h.identityAddress \in addresses}

Ids(rows) == {r.id : r \in rows}

\* ids drawn so far from the four sequences together
IdsDrawn == seqs.bonds + seqs.attestations + seqs.slashEvents + seqs.scoreHistory

----------------------------------------------------------------------------
(* The repositories: one statement per call *)

Returned(op, value) == [op |-> op, outcome |-> "returned", value |-> value]
Thrown(op, code) == [op |-> op, outcome |-> "thrown", value |-> code]
ReturnedNull(op) == [op |-> op, outcome |-> "null", value |-> "null"]

\* a statement naming a table that does not exist is rejected, nothing written
UndefinedTable(op) ==
    /\ dbResult' = Thrown(op, UNDEFINED_TABLE)
    /\ UNCHANGED <<identities, bonds, attestations, slashEvents, scoreHistory, seqs, dbNow,
                   schema>>

\* IdentitiesRepository.create
IdentitiesCreate(input) ==
    IF ~TableExists("identities") THEN UndefinedTable("identities.create")
    ELSE
    LET row == [address |-> input.address, displayName |-> input.displayName,
                createdAt |-> dbNow, updatedAt |-> dbNow]
        err == IdentityInsertError(row)
    IN  /\ IF err = NoError
           THEN /\ identities' = identities \cup {row}
                /\ dbResult' = Returned("identities.create", row)
           ELSE /\ UNCHANGED identities
                /\ dbResult' = Thrown("identities.create", err)
        /\ UNCHANGED <<bonds, attestations, slashEvents, scoreHistory, seqs, dbNow, schema>>

\* IdentitiesRepository.update: display_name and updated_at alone are written,
\* and no constraint of the table reads either
IdentitiesUpdate(address, input) ==
    IF ~TableExists("identities") THEN UndefinedTable("identities.update")
    ELSE
    LET hit == {i \in identities : i.address = address}
    IN  /\ IF hit = {}
           THEN /\ UNCHANGED identities
                /\ dbResult' = ReturnedNull("identities.update")
           ELSE LET old == CHOOSE i \in hit : TRUE
                    row == [old EXCEPT !.displayName = input.displayName,
                                       !.updatedAt = dbNow]
                IN  /\ identities' = (identities \ {old}) \cup {row}
                    /\ dbResult' = Returned("identities.update", row)
        /\ UNCHANGED <<bonds, attestations, slashEvents, scoreHistory, seqs, dbNow, schema>>

\* IdentitiesRepository.delete
IdentitiesDelete(address) ==
    IF ~TableExists("identities") THEN UndefinedTable("identities.delete")
    ELSE
    LET gone == {i \in identities : i.address = address}
        addresses == {i.address : i \in gone}
        bondsGone == BondsOfIdentities(addresses)
    IN  /\ identities' = identities \ gone
        /\ bonds' = bonds \ bondsGone
        /\ attestations' = attestations \ AttestationsCascaded(addresses, Ids(bondsGone))
        /\ slashEvents' = slashEvents \ SlashEventsCascaded(Ids(bondsGone))
        /\ scoreHistory' = scoreHistory \ ScoreHistoryCascaded(addresses)
        /\ dbResult' = Returned("identities.delete", Cardinality(gone) > 0)
        /\ UNCHANGED <<seqs, dbNow, schema>>

\* BondsRepository.create
BondsCreate(input) ==
    IF ~TableExists("bonds") THEN UndefinedTable("bonds.create")
    ELSE
    LET id == seqs.bonds + 1
        row == [id |-> id, identityAddress |-> input.identityAddress,
                amount |-> input.amount, startTime |-> input.startTime,
                durationDays |-> input.durationDays,
                status |-> IF input.status = StatusUndefined THEN "active" ELSE input.status,
                createdAt |-> dbNow]
        err == BondInsertError(row)
    IN  /\ seqs' = [seqs EXCEPT !.bonds = id]
        /\ IF err = NoError
           THEN /\ bonds' = bonds \cup {row}
                /\ dbResult' = Returned("bonds.create", row)
           ELSE /\ UNCHANGED bonds
                /\ dbResult' = Thrown("bonds.create", err)
        /\ UNCHANGED <<identities, attestations, slashEvents, scoreHistory, dbNow, schema>>

\* BondsRepository.updateStatus
BondsUpdateStatus(id, status) ==
    IF ~TableExists("bonds") THEN UndefinedTable("bonds.updateStatus")
    ELSE
    LET hit == {b \in bonds : b.id = id}
    IN  /\ IF hit = {}
           THEN /\ UNCHANGED bonds
                /\ dbResult' = ReturnedNull("bonds.updateStatus")
           ELSE LET old == CHOOSE b \in hit : TRUE
                    row == [old EXCEPT !.status = status]
                    err == BondInsertError(row)
                IN  IF err = NoError
                    THEN /\ bonds' = (bonds \ {old}) \cup {row}
                         /\ dbResult' = Returned("bonds.updateStatus", row)
                    ELSE /\ UNCHANGED bonds
                         /\ dbResult' = Thrown("bonds.updateStatus", err)
        /\ UNCHANGED <<identities, attestations, slashEvents, scoreHistory, seqs, dbNow, schema>>

\* BondsRepository.delete
BondsDelete(id) ==
    IF ~TableExists("bonds") THEN UndefinedTable("bonds.delete")
    ELSE
    LET gone == {b \in bonds : b.id = id}
    IN  /\ bonds' = bonds \ gone
        /\ attestations' = attestations \ AttestationsCascaded({}, Ids(gone))
        /\ slashEvents' = slashEvents \ SlashEventsCascaded(Ids(gone))
        /\ dbResult' = Returned("bonds.delete", Cardinality(gone) > 0)
        /\ UNCHANGED <<identities, scoreHistory, seqs, dbNow, schema>>

\* AttestationsRepository.create
AttestationsCreate(input) ==
    IF ~TableExists("attestations") THEN UndefinedTable("attestations.create")
    ELSE
    LET id == seqs.attestations + 1
        row == [id |-> id, bondId |-> input.bondId,
                attesterAddress |-> input.attesterAddress,
                subjectAddress |-> input.subjectAddress,
                score |-> input.score, note |-> input.note, createdAt |-> dbNow]
        err == AttestationInsertError(row)
    IN  /\ seqs' = [seqs EXCEPT !.attestations = id]
        /\ IF err = NoError
           THEN /\ attestations' = attestations \cup {row}
                /\ dbResult' = Returned("attestations.create", row)
           ELSE /\ UNCHANGED attestations
                /\ dbResult' = Thrown("attestations.create", err)
        /\ UNCHANGED <<identities, bonds, slashEvents, scoreHistory, dbNow, schema>>

\* the row an UPDATE attestations SET score = $2 WHERE id = $1 writes, checked
UpdateScoreErrorUnchecked(row) == NoError
UpdateScoreError(row) ==
    StatementError(AttestationsScoreCheck(row),
                   AttestationsUniqueAttesterSubjectPerBond(row),
                   AttestationsForeignKeys(row))

\* AttestationsRepository.updateScore
AttestationsUpdateScore(id, score) ==
    IF ~TableExists("attestations") THEN UndefinedTable("attestations.updateScore")
    ELSE
    LET hit == {a \in attestations : a.id = id}
    IN  /\ IF hit = {}
           THEN /\ UNCHANGED attestations
                /\ dbResult' = ReturnedNull("attestations.updateScore")
           ELSE LET old == CHOOSE a \in hit : TRUE
                    row == [old EXCEPT !.score = score]
                    err == UpdateScoreError(row)
                IN  IF err = NoError
                    THEN /\ attestations' = (attestations \ {old}) \cup {row}
                         /\ dbResult' = Returned("attestations.updateScore", row)
                    ELSE /\ UNCHANGED attestations
                         /\ dbResult' = Thrown("attestations.updateScore", err)
        /\ UNCHANGED <<identities, bonds, slashEvents, scoreHistory, seqs, dbNow, schema>>

\* AttestationsRepository.delete
AttestationsDelete(id) ==
    IF ~TableExists("attestations") THEN UndefinedTable("attestations.delete")
    ELSE
    LET gone == {a \in attestations : a.id = id}
    IN  /\ attestations' = attestations \ gone
        /\ dbResult' = Returned("attestations.delete", Cardinality(gone) > 0)
        /\ UNCHANGED <<identities, bonds, slashEvents, scoreHistory, seqs, dbNow, schema>>

\* SlashEventsRepository.create
SlashEventsCreate(input) ==
    IF ~TableExists("slash_events") THEN UndefinedTable("slashEvents.create")
    ELSE
    LET id == seqs.slashEvents + 1
        row == [id |-> id, bondId |-> input.bondId, slashAmount |-> input.slashAmount,
                reason |-> input.reason, createdAt |-> dbNow]
        err == SlashEventInsertError(row)
    IN  /\ seqs' = [seqs EXCEPT !.slashEvents = id]
        /\ IF err = NoError
           THEN /\ slashEvents' = slashEvents \cup {row}
                /\ dbResult' = Returned("slashEvents.create", row)
           ELSE /\ UNCHANGED slashEvents
                /\ dbResult' = Thrown("slashEvents.create", err)
        /\ UNCHANGED <<identities, bonds, attestations, scoreHistory, dbNow, schema>>

SlashEventsDeleteAlwaysTrue(id) ==
    IF ~TableExists("slash_events") THEN UndefinedTable("slashEvents.delete")
    ELSE
    LET gone == {e \in slashEvents : e.id = id}
    IN  /\ slashEvents' = slashEvents \ gone
        /\ dbResult' = Returned("slashEvents.delete", TRUE)
        /\ UNCHANGED <<identities, bonds, attestations, scoreHistory, seqs, dbNow, schema>>

\* SlashEventsRepository.delete
SlashEventsDelete(id) ==
    IF ~TableExists("slash_events") THEN UndefinedTable("slashEvents.delete")
    ELSE
    LET gone == {e \in slashEvents : e.id = id}
    IN  /\ slashEvents' = slashEvents \ gone
        /\ dbResult' = Returned("slashEvents.delete", Cardinality(gone) > 0)
        /\ UNCHANGED <<identities, bonds, attestations, scoreHistory, seqs, dbNow, schema>>

\* ScoreHistoryRepository.create
ScoreHistoryCreate(input) ==
    IF ~TableExists("score_history") THEN UndefinedTable("scoreHistory.create")
    ELSE
    LET id == seqs.scoreHistory + 1
        row == [id |-> id, identityAddress |-> input.identityAddress,
                score |-> input.score, source |-> input.source,
                computedAt |-> IF input.computedAt = DateUndefined
                               THEN dbNow ELSE input.computedAt]
        err == ScoreHistoryInsertError(row)
    IN  /\ seqs' = [seqs EXCEPT !.scoreHistory = id]
        /\ IF err = NoError
           THEN /\ scoreHistory' = scoreHistory \cup {row}
                /\ dbResult' = Returned("scoreHistory.create", row)
           ELSE /\ UNCHANGED scoreHistory
                /\ dbResult' = Thrown("scoreHistory.create", err)
        /\ UNCHANGED <<identities, bonds, attestations, slashEvents, dbNow, schema>>

\* ScoreHistoryRepository.delete
ScoreHistoryDelete(id) ==
    IF ~TableExists("score_history") THEN UndefinedTable("scoreHistory.delete")
    ELSE
    LET gone == {h \in scoreHistory : h.id = id}
    IN  /\ scoreHistory' = scoreHistory \ gone
        /\ dbResult' = Returned("scoreHistory.delete", Cardinality(gone) > 0)
        /\ UNCHANGED <<identities, bonds, attestations, slashEvents, seqs, dbNow, schema>>

----------------------------------------------------------------------------
(* db schema lifecycle: createSchema and dropSchema await one statement after *)
(* the other, so other calls run between two of them; resetDatabase is one    *)
(* statement.  schema.create / schema.drop hold the statement a running call  *)
(* comes to next (0: no call running).                                        *)

\* CREATE TABLE IF NOT EXISTS / CREATE INDEX IF NOT EXISTS ... ON table
CreateError(statement) ==
    IF statement.create = "TABLE"
    THEN IF /\ ~TableExists(statement.name)
            /\ ~(References(statement.name) \subseteq schema.tables)
         THEN UNDEFINED_TABLE ELSE NoError
    ELSE IF ~TableExists(statement.name) THEN UNDEFINED_TABLE ELSE NoError

\* DROP TABLE IF EXISTS table
DropError(table) ==
    IF TableExists(table) /\ \E other \in schema.tables : table \in References(other)
    THEN DEPENDENT_OBJECTS_STILL_EXIST ELSE NoError

\* the id sequence a table owns
SequenceOf(table) ==
    CASE table = "identities" -> "none"
      [] table = "bonds" -> "bonds"
      [] table = "attestations" -> "attestations"
      [] table = "slash_events" -> "slashEvents"
      [] table = "score_history" -> "scoreHistory"

\* the rows and the sequences once the tables of `gone` are dropped or truncated
Emptied(gone) ==
    /\ identities' = IF "identities" \in gone THEN {} ELSE identities
    /\ bonds' = IF "bonds" \in gone THEN {} ELSE bonds
    /\ attestations' = IF "attestations" \in gone THEN {} ELSE attestations
    /\ slashEvents' = IF "slash_events" \in gone THEN {} ELSE slashEvents
    /\ scoreHistory' = IF "score_history" \in gone THEN {} ELSE scoreHistory
    /\ seqs' = [q \in DOMAIN seqs |->
                    IF \E table \in gone : SequenceOf(table) = q THEN 0 ELSE seqs[q]]

\* createSchema: the next of its statements
createSchema ==
    LET k == IF schema.create = 0 THEN 1 ELSE schema.create
        statement == CREATE_TABLE_STATEMENTS[k]
        err == CreateError(statement)
        last == k = Len(CREATE_TABLE_STATEMENTS)
    IN  /\ schema' = [schema EXCEPT
                !.tables = IF err = NoError /\ statement.create = "TABLE"
                           THEN @ \cup {statement.name} ELSE @,
                !.create = IF err # NoError \/ last THEN 0 ELSE k + 1]
        /\ dbResult' = IF err # NoError THEN Thrown("createSchema", err)
                       ELSE IF last THEN Returned("createSchema", "undefined")
                       ELSE dbResult
        /\ UNCHANGED <<identities, bonds, attestations, slashEvents, scoreHistory, seqs, dbNow>>

\* resetDatabase: TRUNCATE TABLE (the five) RESTART IDENTITY CASCADE
resetDatabase ==
    IF schema.tables # Tables THEN UndefinedTable("resetDatabase")
    ELSE /\ Emptied(Tables)
         /\ dbResult' = Returned("resetDatabase", "undefined")
         /\ UNCHANGED <<dbNow, schema>>

\* dropSchema: the next of its statements
dropSchema ==
    LET k == IF schema.drop = 0 THEN 1 ELSE schema.drop
        table == DROP_TABLE_STATEMENTS[k]
        err == DropError(table)
        last == k = Len(DROP_TABLE_STATEMENTS)
    IN  /\ schema' = [schema EXCEPT
                !.tables = IF err = NoError THEN @ \ {table} ELSE @,
                !.drop = IF err # NoError \/ last THEN 0 ELSE k + 1]
        /\ IF err = NoError /\ TableExists(table)
           THEN Emptied({table})
           ELSE UNCHANGED <<identities, bonds, attestations, slashEvents, scoreHistory, seqs>>
        /\ dbResult' = IF err # NoError THEN Thrown("dropSchema", err)
                       ELSE IF last THEN Returned("dropSchema", "undefined")
                       ELSE dbResult
        /\ UNCHANGED dbNow

----------------------------------------------------------------------------
(* The store and its callers: the inputs StoreSpec draws *)

AddrA == <<"G", "A">>
AddrB == <<"G", "B">>
AddrBlank == <<" ", " ">>
Addresses == {AddrA, AddrB}
Scores == {-1, 0, 100, 101}

IdentityInputs ==
    [address : Addresses \cup {AddrBlank}, displayName : {NullText}]
UpdateIdentityInputs == [displayName : {NullText}]
StatusInputs == {"released", "revoked"}
BondInputs ==
    [identityAddress : Addresses, amount : {100000000}, startTime : {0},
     durationDays : {30}, status : {StatusUndefined}]
\* the ids a caller may name: those of the stored rows, and one that no row
\* has (the next the sequence will hand out)
BondIds == Ids(bonds) \cup {seqs.bonds + 1}
AttestationIds == Ids(attestations) \cup {seqs.attestations + 1}
SlashEventIds == Ids(slashEvents) \cup {seqs.slashEvents + 1}
ScoreHistoryIds == Ids(scoreHistory) \cup {seqs.scoreHistory + 1}

AttestationInputs ==
    [bondId : BondIds, attesterAddress : Addresses, subjectAddress : Addresses,
     score : Scores, note : {NullText}]
SlashEventInputs ==
    [bondId : BondIds, slashAmount : {25000000}, reason : {<<"f", "r", "a", "u", "d">>}]
ScoreHistoryInputs ==
    [identityAddress : Addresses, score : Scores, source : {"manual"},
     computedAt : {DateUndefined}]

QuotaIdle ==
    /\ apiKeys = [k \in Keys |-> NoRecord]
    /\ quotaUsages = [k \in Keys |-> NoUsage]
    /\ now = 0
    /\ result = [op |-> "none"]
    /\ callsInWindow = [k \in Keys |-> NoCalls]
    /\ admitted = [k \in Keys |-> NoneAdmitted]
    /\ wiped = [k \in Keys |-> NotWiped]

StoreInit == QuotaIdle /\ StoreIdle /\ EdgeIdle

StoreNext ==
    \/ \E input \in IdentityInputs : IdentitiesCreate(input) /\ UNCHANGED <<quotaVars, edgeVars>>
    \/ \E address \in Addresses, input \in UpdateIdentityInputs :
            IdentitiesUpdate(address, input) /\ UNCHANGED <<quotaVars, edgeVars>>
    \/ \E address \in Addresses : IdentitiesDelete(address) /\ UNCHANGED <<quotaVars, edgeVars>>
    \/ \E input \in BondInputs :
            IdsDrawn < MaxInserts /\ BondsCreate(input) /\ UNCHANGED <<quotaVars, edgeVars>>
    \/ \E id \in BondIds, status \in StatusInputs :
            BondsUpdateStatus(id, status) /\ UNCHANGED <<quotaVars, edgeVars>>
    \/ \E id \in BondIds : BondsDelete(id) /\ UNCHANGED <<quotaVars, edgeVars>>
    \/ \E input \in AttestationInputs :
            IdsDrawn < MaxInserts /\ AttestationsCreate(input) /\ UNCHANGED <<quotaVars, edgeVars>>
    \/ \E id \in AttestationIds, score \in Scores :
            AttestationsUpdateScore(id, score) /\ UNCHANGED <<quotaVars, edgeVars>>
    \/ \E id \in AttestationIds : AttestationsDelete(id) /\ UNCHANGED <<quotaVars, edgeVars>>
    \/ \E input \in SlashEventInputs :
            IdsDrawn < MaxInserts /\ SlashEventsCreate(input) /\ UNCHANGED <<quotaVars, edgeVars>>
    \/ \E id \in SlashEventIds : SlashEventsDelete(id) /\ UNCHANGED <<quotaVars, edgeVars>>
    \/ \E input \in ScoreHistoryInputs :
            IdsDrawn < MaxInserts /\ ScoreHistoryCreate(input) /\ UNCHANGED <<quotaVars, edgeVars>>
    \/ \E id \in ScoreHistoryIds : ScoreHistoryDelete(id) /\ UNCHANGED <<quotaVars, edgeVars>>

StoreSpec == StoreInit /\ [][StoreNext]_vars

----------------------------------------------------------------------------
(* RulesSpec: the same repositories called with inputs that break each rule *)
(* of the schema in turn, next to inputs at the edge of what it admits.     *)

Fraud == <<"f", "r", "a", "u", "d">>
Blank == <<" ">>

\* a bond at the edge of the CHECKs (amount 0, one day), and three inputs that
\* each break one of them
RuleBondInputs ==
    [identityAddress : Addresses, amount : {0}, startTime : {0},
     durationDays : {1}, status : {StatusUndefined}]
    \cup [identityAddress : {AddrA}, amount : {-1}, startTime : {0},
          durationDays : {1}, status : {StatusUndefined}]
    \cup [identityAddress : {AddrA}, amount : {0}, startTime : {0},
          durationDays : {0}, status : {StatusUndefined}]
    \cup [identityAddress : {AddrA}, amount : {0}, startTime : {0},
          durationDays : {1}, status : {"revoked"}]

RuleAttestationInputs ==
    [bondId : BondIds, attesterAddress : {AddrA}, subjectAddress : Addresses,
     score : {0, 101}, note : {NullText}]
RuleUpdateScores == {100, 101}

\* a slash event of the smallest amount (10^-7), and inputs with amount 0, a
\* negative amount, a blank reason
RuleSlashEventInputs ==
    [bondId : BondIds, slashAmount : {1}, reason : {Fraud}]
    \cup [bondId : BondIds, slashAmount : {0, -1}, reason : {Fraud}]
    \cup [bondId : BondIds, slashAmount : {1}, reason : {Blank}]

RuleScoreHistoryInputs ==
    [identityAddress : {AddrA}, score : {0, 101}, source : {"manual"},
     computedAt : {DateUndefined}]
    \cup [identityAddress : {AddrA}, score : {0}, source : {"oracle"},
          computedAt : {DateUndefined}]

RuleUpdateIdentityInputs == [displayName : {<<"n">>}]

RulesNext ==
    \/ \E input \in IdentityInputs : IdentitiesCreate(input) /\ UNCHANGED <<quotaVars, edgeVars>>
    \/ \E address \in Addresses, input \in RuleUpdateIdentityInputs :
            IdentitiesUpdate(address, input) /\ UNCHANGED <<quotaVars, edgeVars>>
    \/ \E address \in Addresses : IdentitiesDelete(address) /\ UNCHANGED <<quotaVars, edgeVars>>
    \/ \E input \in RuleBondInputs :
            IdsDrawn < MaxInserts /\ BondsCreate(input) /\ UNCHANGED <<quotaVars, edgeVars>>
    \/ \E id \in BondIds, status \in StatusInputs :
            BondsUpdateStatus(id, status) /\ UNCHANGED <<quotaVars, edgeVars>>
    \/ \E id \in BondIds : BondsDelete(id) /\ UNCHANGED <<quotaVars, edgeVars>>
    \/ \E input \in RuleAttestationInputs :
            IdsDrawn < MaxInserts /\ AttestationsCreate(input) /\ UNCHANGED <<quotaVars, edgeVars>>
    \/ \E id \in AttestationIds, score \in RuleUpdateScores :
            AttestationsUpdateScore(id, score) /\ UNCHANGED <<quotaVars, edgeVars>>
    \/ \E id \in AttestationIds : AttestationsDelete(id) /\ UNCHANGED <<quotaVars, edgeVars>>
    \/ \E input \in RuleSlashEventInputs :
            IdsDrawn < MaxInserts /\ SlashEventsCreate(input) /\ UNCHANGED <<quotaVars, edgeVars>>
    \/ \E id \in SlashEventIds : SlashEventsDelete(id) /\ UNCHANGED <<quotaVars, edgeVars>>
    \/ \E input \in RuleScoreHistoryInputs :
            IdsDrawn < MaxInserts /\ ScoreHistoryCreate(input) /\ UNCHANGED <<quotaVars, edgeVars>>
    \/ \E id \in ScoreHistoryIds : ScoreHistoryDelete(id) /\ UNCHANGED <<quotaVars, edgeVars>>

RulesSpec == StoreInit /\ [][RulesNext]_vars

----------------------------------------------------------------------------
(* ListSpec: rows are created while the database clock advances, and the    *)
(* list operations are called.                                              *)
(* TotalSpec: slash events are created and deleted, alone and by cascade,   *)
(* and totalSlashedForBond is called.                                       *)

\* How far the database clock advances.
MaxTicks == 1

\* text order of the address column: by character, in code-point order
CodePoints == <<" ", "A", "B", "G">>
CharRank(c) == CHOOSE k \in 1..Len(CodePoints) : CodePoints[k] = c

RECURSIVE TextLess(_, _)
TextLess(a, b) ==
    IF a = <<>> THEN b # <<>>
    ELSE IF b = <<>> THEN FALSE
    ELSE IF Head(a) = Head(b) THEN TextLess(Tail(a), Tail(b))
    ELSE CharRank(Head(a)) < CharRank(Head(b))

\* ORDER BY: the rows as the one sequence in which each row comes before the
\* next by the ordering of the query
OrderBy(rows, precedes) ==
    CHOOSE s \in [1..Cardinality(rows) -> rows] :
        \A i, j \in 1..Cardinality(rows) : i < j => <<s[i], s[j]>> \in precedes

\* the bonds' ordering, were it by created_at
BondsOrderCreatedAt(a, b) ==
    a.createdAt > b.createdAt \/ (a.createdAt = b.createdAt /\ a.id > b.id)
\* ORDER BY start_time DESC, id DESC
BondsOrder(a, b) ==
    a.startTime > b.startTime \/ (a.startTime = b.startTime /\ a.id > b.id)
\* ORDER BY created_at DESC, id DESC
CreatedAtOrder(a, b) ==
    a.createdAt > b.createdAt \/ (a.createdAt = b.createdAt /\ a.id > b.id)
\* ORDER BY computed_at DESC, id DESC
ComputedAtOrder(a, b) ==
    a.computedAt > b.computedAt \/ (a.computedAt = b.computedAt /\ a.id > b.id)
\* ORDER BY created_at ASC, address ASC
IdentitiesOrder(a, b) ==
    \/ a.createdAt < b.createdAt
    \/ a.createdAt = b.createdAt /\ TextLess(a.address, b.address)

\* BondsRepository.listByIdentity
BondsListByIdentity(identityAddress) ==
    IF ~TableExists("bonds") THEN UndefinedTable("bonds.listByIdentity")
    ELSE
    /\ dbResult' = Returned("bonds.listByIdentity",
            LET rows == {b \in bonds : b.identityAddress = identityAddress}
            IN  OrderBy(rows, {p \in rows \X rows : BondsOrder(p[1], p[2])}))
    /\ UNCHANGED <<identities, bonds, attestations, slashEvents, scoreHistory, seqs, dbNow, schema>>

\* AttestationsRepository.listBySubject
AttestationsListBySubject(subjectAddress) ==
    IF ~TableExists("attestations") THEN UndefinedTable("attestations.listBySubject")
    ELSE
    /\ dbResult' = Returned("attestations.listBySubject",
            LET rows == {a \in attestations : a.subjectAddress = subjectAddress}
            IN  OrderBy(rows, {p \in rows \X rows : CreatedAtOrder(p[1], p[2])}))
    /\ UNCHANGED <<identities, bonds, attestations, slashEvents, scoreHistory, seqs, dbNow, schema>>

\* AttestationsRepository.listByBond
AttestationsListByBond(bondId) ==
    IF ~TableExists("attestations") THEN UndefinedTable("attestations.listByBond")
    ELSE
    /\ dbResult' = Returned("attestations.listByBond",
            LET rows == {a \in attestations : a.bondId = bondId}
            IN  OrderBy(rows, {p \in rows \X rows : CreatedAtOrder(p[1], p[2])}))
    /\ UNCHANGED <<identities, bonds, attestations, slashEvents, scoreHistory, seqs, dbNow, schema>>

\* SlashEventsRepository.listByBond
SlashEventsListByBond(bondId) ==
    IF ~TableExists("slash_events") THEN UndefinedTable("slashEvents.listByBond")
    ELSE
    /\ dbResult' = Returned("slashEvents.listByBond",
            LET rows == {e \in slashEvents : e.bondId = bondId}
            IN  OrderBy(rows, {p \in rows \X rows : CreatedAtOrder(p[1], p[2])}))
    /\ UNCHANGED <<identities, bonds, attestations, slashEvents, scoreHistory, seqs, dbNow, schema>>

\* ScoreHistoryRepository.listByIdentity
ScoreHistoryListByIdentity(identityAddress) ==
    IF ~TableExists("score_history") THEN UndefinedTable("scoreHistory.listByIdentity")
    ELSE
    /\ dbResult' = Returned("scoreHistory.listByIdentity",
            LET rows == {h \in scoreHistory : h.identityAddress = identityAddress}
            IN  OrderBy(rows, {p \in rows \X rows : ComputedAtOrder(p[1], p[2])}))
    /\ UNCHANGED <<identities, bonds, attestations, slashEvents, scoreHistory, seqs, dbNow, schema>>

\* IdentitiesRepository.list
IdentitiesList ==
    IF ~TableExists("identities") THEN UndefinedTable("identities.list")
    ELSE
    /\ dbResult' = Returned("identities.list", OrderBy(identities,
                    {p \in identities \X identities : IdentitiesOrder(p[1], p[2])}))
    /\ UNCHANGED <<identities, bonds, attestations, slashEvents, scoreHistory, seqs, dbNow, schema>>

\* NOW() moves on between two statements
Tick ==
    /\ dbNow < MaxTicks
    /\ dbNow' = dbNow + 1
    /\ UNCHANGED <<identities, bonds, attestations, slashEvents, scoreHistory, seqs, dbResult, schema>>

\* NUMERIC(20, 7) as text: the whole part, a point, seven decimals
Digit(d) == <<"0", "1", "2", "3", "4", "5", "6", "7", "8", "9">>[d + 1]

RECURSIVE Digits(_)
Digits(n) == IF n < 10 THEN <<Digit(n)>> ELSE Digits(n \div 10) \o <<Digit(n % 10)>>

RECURSIVE Decimals(_, _)
Decimals(n, places) ==
    IF places = 0 THEN <<>>
    ELSE Decimals(n \div 10, places - 1) \o <<Digit(n % 10)>>

\* the text, were the decimals dropped
NumericTextWhole(n) == Digits(n \div 10000000)
NumericText(n) ==
    Digits(n \div 10000000) \o <<".">> \o Decimals(n % 10000000, 7)

RECURSIVE SumSlashAmount(_)
SumSlashAmount(rows) ==
    IF rows = {} THEN 0
    ELSE LET e == CHOOSE r \in rows : TRUE
         IN  e.slashAmount + SumSlashAmount(rows \ {e})

\* SlashEventsRepository.totalSlashedForBond:
\* COALESCE(SUM(slash_amount)::TEXT, '0'), SUM of no rows being NULL
SlashEventsTotalSlashedForBond(bondId) ==
    IF ~TableExists("slash_events") THEN UndefinedTable("slashEvents.totalSlashedForBond")
    ELSE
    LET rows == {e \in slashEvents : e.bondId = bondId}
    IN  /\ dbResult' = Returned("slashEvents.totalSlashedForBond",
                IF rows = {} THEN <<"0">> ELSE NumericText(SumSlashAmount(rows)))
        /\ UNCHANGED <<identities, bonds, attestations, slashEvents, scoreHistory, seqs, dbNow, schema>>

\* the inputs ListSpec draws
ListIdentityInputs == [address : Addresses, displayName : {NullText}]
ListBondInputs ==
    [identityAddress : {AddrA}, amount : {0}, startTime : {0, 1},
     durationDays : {1}, status : {StatusUndefined}]
ListAttestationInputs ==
    [bondId : BondIds, attesterAddress : Addresses, subjectAddress : {AddrA},
     score : {0}, note : {NullText}]
ListSlashEventInputs ==
    [bondId : BondIds, slashAmount : {25000000}, reason : {Fraud}]
ListScoreHistoryInputs ==
    [identityAddress : {AddrA}, score : {0}, source : {"manual"},
     computedAt : {DateUndefined, 0}]

ListNext ==
    \/ Tick /\ UNCHANGED <<quotaVars, edgeVars>>
    \/ \E input \in ListIdentityInputs : IdentitiesCreate(input) /\ UNCHANGED <<quotaVars, edgeVars>>
    \/ IdentitiesList /\ UNCHANGED <<quotaVars, edgeVars>>
    \/ \E input \in ListBondInputs :
            IdsDrawn < MaxInserts /\ BondsCreate(input) /\ UNCHANGED <<quotaVars, edgeVars>>
    \/ \E address \in Addresses : BondsListByIdentity(address) /\ UNCHANGED <<quotaVars, edgeVars>>
    \/ \E input \in ListAttestationInputs :
            IdsDrawn < MaxInserts /\ AttestationsCreate(input) /\ UNCHANGED <<quotaVars, edgeVars>>
    \/ \E address \in Addresses : AttestationsListBySubject(address) /\ UNCHANGED <<quotaVars, edgeVars>>
    \/ \E id \in BondIds : AttestationsListByBond(id) /\ UNCHANGED <<quotaVars, edgeVars>>
    \/ \E input \in ListSlashEventInputs :
            IdsDrawn < MaxInserts /\ SlashEventsCreate(input) /\ UNCHANGED <<quotaVars, edgeVars>>
    \/ \E id \in BondIds : SlashEventsListByBond(id) /\ UNCHANGED <<quotaVars, edgeVars>>
    \/ \E input \in ListScoreHistoryInputs :
            IdsDrawn < MaxInserts /\ ScoreHistoryCreate(input) /\ UNCHANGED <<quotaVars, edgeVars>>
    \/ \E address \in Addresses : ScoreHistoryListByIdentity(address) /\ UNCHANGED <<quotaVars, edgeVars>>

ListSpec == StoreInit /\ [][ListNext]_vars

\* the inputs TotalSpec draws: bonds of both identities, amounts 2.5 and 4
TotalBondInputs ==
    [identityAddress : Addresses, amount : {0}, startTime : {0},
     durationDays : {1}, status : {StatusUndefined}]
TotalSlashEventInputs ==
    [bondId : BondIds, slashAmount : {25000000, 40000000}, reason : {Fraud}]

\* the bond ids totalSlashedForBond is called with: every id the sequence has
\* issued, deleted bonds' among them, and one it has not
TotalBondIds == 1..(seqs.bonds + 1)

TotalNext ==
    \/ \E input \in ListIdentityInputs : IdentitiesCreate(input) /\ UNCHANGED <<quotaVars, edgeVars>>
    \/ \E address \in Addresses : IdentitiesDelete(address) /\ UNCHANGED <<quotaVars, edgeVars>>
    \/ \E input \in TotalBondInputs :
            IdsDrawn < MaxInserts /\ BondsCreate(input) /\ UNCHANGED <<quotaVars, edgeVars>>
    \/ \E id \in BondIds : BondsDelete(id) /\ UNCHANGED <<quotaVars, edgeVars>>
    \/ \E input \in TotalSlashEventInputs :
            IdsDrawn < MaxInserts /\ SlashEventsCreate(input) /\ UNCHANGED <<quotaVars, edgeVars>>
    \/ \E id \in SlashEventIds : SlashEventsDelete(id) /\ UNCHANGED <<quotaVars, edgeVars>>
    \/ \E id \in TotalBondIds : SlashEventsTotalSlashedForBond(id) /\ UNCHANGED <<quotaVars, edgeVars>>

TotalSpec == StoreInit /\ [][TotalNext]_vars

----------------------------------------------------------------------------
(* SchemaSpec: the schema is created, reset and dropped while rows are *)
(* created, deleted and listed.                                         *)

SchemaIdentityInputs == [address : {AddrA}, displayName : {NullText}]
SchemaBondInputs ==
    [identityAddress : {AddrA}, amount : {0}, startTime : {0},
     durationDays : {1}, status : {StatusUndefined}]

CreateSchema == createSchema
ResetDatabase == resetDatabase
DropSchema == dropSchema

SchemaNext ==
    \/ CreateSchema /\ UNCHANGED <<quotaVars, edgeVars>>
    \/ ResetDatabase /\ UNCHANGED <<quotaVars, edgeVars>>
    \/ DropSchema /\ UNCHANGED <<quotaVars, edgeVars>>
    \/ \E input \in SchemaIdentityInputs : IdentitiesCreate(input) /\ UNCHANGED <<quotaVars, edgeVars>>
    \/ \E input \in SchemaBondInputs :
            IdsDrawn < MaxInserts /\ BondsCreate(input) /\ UNCHANGED <<quotaVars, edgeVars>>
    \/ \E id \in BondIds : BondsDelete(id) /\ UNCHANGED <<quotaVars, edgeVars>>
    \/ \E input \in ListSlashEventInputs :
            IdsDrawn < MaxInserts /\ SlashEventsCreate(input) /\ UNCHANGED <<quotaVars, edgeVars>>
    \/ \E id \in BondIds : SlashEventsListByBond(id) /\ UNCHANGED <<quotaVars, edgeVars>>

SchemaSpec == StoreInit /\ [][SchemaNext]_vars

----------------------------------------------------------------------------
(* TripleSpec: two identities and bonds are created, and attestations are *)
(* created, updated and deleted on them, alone and by cascade.            *)

TripleAttestationInputs ==
    [bondId : BondIds, attesterAddress : Addresses, subjectAddress : Addresses,
     score : {0, 101}, note : {NullText}]

TripleNext ==
    \/ \E input \in ListIdentityInputs : IdentitiesCreate(input) /\ UNCHANGED <<quotaVars, edgeVars>>
    \/ \E input \in SchemaBondInputs :
            IdsDrawn < MaxTripleInserts /\ BondsCreate(input) /\ UNCHANGED <<quotaVars, edgeVars>>
    \/ \E id \in BondIds : BondsDelete(id) /\ UNCHANGED <<quotaVars, edgeVars>>
    \/ \E input \in TripleAttestationInputs :
            IdsDrawn < MaxTripleInserts /\ AttestationsCreate(input) /\ UNCHANGED <<quotaVars, edgeVars>>
    \/ \E id \in AttestationIds, score \in {100} :
            AttestationsUpdateScore(id, score) /\ UNCHANGED <<quotaVars, edgeVars>>
    \/ \E id \in AttestationIds : AttestationsDelete(id) /\ UNCHANGED <<quotaVars, edgeVars>>

TripleSpec == StoreInit /\ [][TripleNext]_vars

----------------------------------------------------------------------------
(* Properties of the quota service *)

IsQuotaCall(r) == r.op = "checkAndIncrementQuota"
Limit(tier) == TIER_CONFIGS[tier].rateLimitTokens

\* C1: in a window whose non-admin calls were all made with one tier, the Nth
\* call returns allowed = TRUE and remaining = limit - N for N <= limit, and
\* every later call returns allowed = FALSE and remaining = 0.
C1_NthCallOfWindow ==
    (IsQuotaCall(result) /\ ~result.isAdminOverride
        /\ callsInWindow[result.key].tier = result.tier) =>
    LET N == callsInWindow[result.key].n
        limit == Limit(result.tier)
    IN  /\ N >= 1
        /\ N <= limit => (result.allowed /\ result.remaining = limit - N)
        /\ N > limit => (~result.allowed /\ result.remaining = 0)

\* C1 witness: call number limit + 1 of an ENTERPRISE window has been rejected.
C1_Witness ==
    /\ IsQuotaCall(result) /\ ~result.isAdminOverride
    /\ result.tier = "ENTERPRISE"
    /\ callsInWindow[result.key] = [tier |-> "ENTERPRISE", n |-> 1001]
    /\ ~result.allowed /\ result.remaining = 0

\* C2: a call with an admin-override record returns allowed = TRUE, whatever
\* the tier, the number of earlier calls and the key's usage window.
C2_AdminAlwaysAllowed ==
    (IsQuotaCall(result) /\ result.isAdminOverride) => result.allowed

\* C2 witness: an admin call was answered while the key's window, filled by
\* earlier non-admin calls, is exhausted for the record's tier and still current.
C2_Witness ==
    /\ IsQuotaCall(result) /\ result.isAdminOverride /\ result.allowed
    /\ quotaUsages[result.key] # NoUsage
    /\ quotaUsages[result.key].tokensUsed >= Limit(result.tier)
    /\ now - quotaUsages[result.key].windowStartMs < 60000

\* C3: every checkAndIncrementQuota call returns remaining >= 0.
C3_RemainingNeverNegative ==
    IsQuotaCall(result) => result.remaining >= 0

\* C3 witness: a key whose window holds more tokens than the FREE limit (used
\* under a higher tier) was called with a FREE record.
C3_Witness ==
    /\ IsQuotaCall(result) /\ ~result.isAdminOverride /\ result.tier = "FREE"
    /\ ~result.fresh
    /\ result.found.tokensUsed > 10
    /\ result.remaining = 0

\* C4: a non-admin call at clock reading t with t - windowStartMs >= 60000
\* starts a fresh window (tokensUsed = 1 after the call, windowStartMs = t) and
\* returns allowed with remaining = limit - 1; a call with
\* t - windowStartMs < 60000 leaves windowStartMs alone and counts on in the
\* existing window.
C4_WindowBoundary ==
    [][(IsQuotaCall(result') /\ ~result'.isAdminOverride
            /\ quotaUsages[result'.key] # NoUsage) =>
        LET key == result'.key
            u == quotaUsages[key]
            limit == Limit(result'.tier)
        IN  /\ now' - u.windowStartMs >= 60000 =>
                /\ quotaUsages'[key] = [tokensUsed |-> 1, windowStartMs |-> now']
                /\ result'.allowed
                /\ result'.remaining = limit - 1
            /\ now' - u.windowStartMs < 60000 =>
                /\ quotaUsages'[key].windowStartMs = u.windowStartMs
                /\ quotaUsages'[key].tokensUsed =
                      IF u.tokensUsed < limit THEN u.tokensUsed + 1 ELSE u.tokensUsed
       ]_vars

\* C4 witness: exactly 60000 ms after the start of a window that was exhausted
\* for the caller's tier, a call opened a fresh window and was admitted.
C4_Witness ==
    /\ IsQuotaCall(result) /\ ~result.isAdminOverride
    /\ result.found # NoUsage
    /\ result.found.tokensUsed >= Limit(result.tier)
    /\ now - result.found.windowStartMs = 60000
    /\ result.fresh /\ result.allowed
    /\ result.remaining = Limit(result.tier) - 1
    /\ quotaUsages[result.key] = [tokensUsed |-> 1, windowStartMs |-> now]

\* C5: a call that returns allowed = FALSE leaves the quota ledger as it was.
C5_RejectionKeepsWindow ==
    [][(IsQuotaCall(result') /\ ~result'.allowed) => quotaUsages' = quotaUsages]_vars

\* C5 witness: a call made after the window's start was rejected and the
\* window still starts where it did.
C5_Witness ==
    /\ IsQuotaCall(result) /\ ~result.allowed
    /\ quotaUsages[result.key] = result.found
    /\ now > quotaUsages[result.key].windowStartMs

\* C6: a call with an admin-override record leaves the quota ledger as it was.
C6_AdminLeavesLedger ==
    [][(IsQuotaCall(result') /\ result'.isAdminOverride) => quotaUsages' = quotaUsages]_vars

\* C6 witness: admin calls were answered for a key with no usage window.
C6_Witness ==
    /\ IsQuotaCall(result) /\ result.isAdminOverride
    /\ quotaUsages[result.key] = NoUsage
    /\ now > 0

----------------------------------------------------------------------------
(* Properties of the relational store *)

\* what the last repository call did, read field by field
Threw(r, op, code) == r.op = op /\ r.outcome = "thrown" /\ r.value = code
GaveBack(r, op) == r.op = op /\ r.outcome = "returned"

SameTriple(a, b) ==
    /\ a.bondId = b.bondId
    /\ a.attesterAddress = b.attesterAddress
    /\ a.subjectAddress = b.subjectAddress

C7_NoDuplicateTriple ==
    \A a, b \in attestations : SameTriple(a, b) => a = b

C7_CreateOutcome ==
    dbResult'.op = "attestations.create" =>
    \A input \in TripleAttestationInputs :
        AttestationsCreate(input) =>
            LET repeats == \E a \in attestations : SameTriple(a, input)
                inRange == input.score \in 0..100
                parents == /\ \E b \in bonds : b.id = input.bondId
                           /\ \E i \in identities : i.address = input.attesterAddress
                           /\ \E i \in identities : i.address = input.subjectAddress
            IN  /\ repeats =>
                    /\ dbResult'.outcome = "thrown"
                    /\ attestations' = attestations
                    /\ dbResult'.value = IF inRange THEN "23505" ELSE "23514"
                /\ (~repeats /\ inRange /\ parents) =>
                    /\ dbResult'.outcome = "returned"
                    /\ SameTriple(dbResult'.value, input)
                    /\ dbResult'.value.score = input.score
                    /\ dbResult'.value \notin attestations
                    /\ attestations' = attestations \cup {dbResult'.value}

\* C7: no two attestation rows ever share (bondId, attesterAddress,
\* subjectAddress); a create that repeats a stored triple throws and stores
\* nothing, with the duplicate-key code 23505 when its score is within 0..100
\* and the check code 23514 when it is not, and a create of a new triple
\* (parents present, score in range) stores its row.
C7_UniqueTriple ==
    [][C7_NoDuplicateTriple /\ C7_NoDuplicateTriple' /\ C7_CreateOutcome]_vars

\* C7 as stated: a create that repeats a stored triple throws the
\* duplicate-key code 23505 whatever its score.
C7_DuplicateKeyWhateverScore ==
    [][dbResult'.op = "attestations.create" =>
        \A input \in TripleAttestationInputs :
            (AttestationsCreate(input) /\ \E a \in attestations : SameTriple(a, input))
                => Threw(dbResult', "attestations.create", "23505")]_vars

\* C7 witness: two rows that differ in bondId alone are stored, and a third
\* create, repeating the triple of one of them, was refused with 23505.
C7_Witness ==
    /\ Threw(dbResult, "attestations.create", "23505")
    /\ seqs.attestations = 3
    /\ Cardinality(attestations) = 2
    /\ \E a, b \in attestations :
          /\ a.bondId # b.bondId
          /\ a.attesterAddress = b.attesterAddress
          /\ a.subjectAddress = b.subjectAddress

\* C8: every bond and score-history row references a stored identity, every
\* attestation a stored bond and stored attester and subject identities, and
\* every slash event a stored bond.
C8_NoOrphans ==
    /\ \A b \in bonds : \E i \in identities : i.address = b.identityAddress
    /\ \A h \in scoreHistory : \E i \in identities : i.address = h.identityAddress
    /\ \A a \in attestations :
          /\ \E b \in bonds : b.id = a.bondId
          /\ \E i \in identities : i.address = a.attesterAddress
          /\ \E i \in identities : i.address = a.subjectAddress
    /\ \A e \in slashEvents : \E b \in bonds : b.id = e.bondId

\* C8 witness: an identity has been deleted and a bond, an attestation on it
\* and a score-history entry remain, each with its parents.
C8_Witness ==
    /\ GaveBack(dbResult, "identities.delete") /\ dbResult.value = TRUE
    /\ bonds # {} /\ attestations # {} /\ scoreHistory # {}

\* C9: deleting an identity removes exactly that identity, its bonds, the
\* attestations and slash events on those bonds, the attestations it is
\* attester or subject of, and its score-history entries; every other row stays.
C9_IdentityDeleteCascade ==
    [][dbResult'.op = "identities.delete" =>
       \A address \in Addresses :
        IdentitiesDelete(address) =>
            LET owned(bondId) ==
                    \E b \in bonds : b.id = bondId /\ b.identityAddress = address
            IN  /\ identities' = {i \in identities : i.address # address}
                /\ bonds' = {b \in bonds : b.identityAddress # address}
                /\ attestations' =
                      {a \in attestations : /\ ~owned(a.bondId)
                                            /\ a.attesterAddress # address
                                            /\ a.subjectAddress # address}
                /\ slashEvents' = {e \in slashEvents : ~owned(e.bondId)}
                /\ scoreHistory' = {h \in scoreHistory : h.identityAddress # address}
      ]_vars

\* C9 witness: an identity was deleted; the other identity, its bond and its
\* score-history entry are still stored, and no attestation is left of the one
\* id the sequence handed out.
C9_Witness ==
    /\ GaveBack(dbResult, "identities.delete") /\ dbResult.value = TRUE
    /\ Cardinality(identities) = 1
    /\ Cardinality(bonds) = 1
    /\ Cardinality(scoreHistory) = 1
    /\ seqs.attestations = 1
    /\ attestations = {}

C10_ScoresInRange ==
    /\ \A a \in attestations : a.score \in 0..100
    /\ \A h \in scoreHistory : h.score \in 0..100

C10_WriteOutcome ==
    /\ dbResult'.op = "attestations.create" =>
       \A input \in AttestationInputs :
          AttestationsCreate(input) =>
              /\ input.score \notin 0..100 =>
                    /\ Threw(dbResult', "attestations.create", "23514")
                    /\ attestations' = attestations
              /\ (/\ input.score \in {0, 100}
                  /\ \E b \in bonds : b.id = input.bondId
                  /\ \E i \in identities : i.address = input.attesterAddress
                  /\ \E i \in identities : i.address = input.subjectAddress
                  /\ ~\E a \in attestations : SameTriple(a, input)) =>
                    /\ dbResult'.outcome = "returned"
                    /\ dbResult'.value.score = input.score
                    /\ dbResult'.value \in attestations'
    /\ dbResult'.op = "scoreHistory.create" =>
       \A input \in ScoreHistoryInputs :
          ScoreHistoryCreate(input) =>
              /\ input.score \notin 0..100 =>
                    /\ Threw(dbResult', "scoreHistory.create", "23514")
                    /\ scoreHistory' = scoreHistory
              /\ (/\ input.score \in {0, 100}
                  /\ \E i \in identities : i.address = input.identityAddress) =>
                    /\ dbResult'.outcome = "returned"
                    /\ dbResult'.value.score = input.score
                    /\ dbResult'.value \in scoreHistory'
    /\ dbResult'.op = "attestations.updateScore" =>
       \A id \in AttestationIds, score \in Scores :
          (AttestationsUpdateScore(id, score) /\ \E a \in attestations : a.id = id) =>
              /\ score \notin 0..100 =>
                    /\ Threw(dbResult', "attestations.updateScore", "23514")
                    /\ attestations' = attestations
              /\ score \in {0, 100} =>
                    /\ dbResult'.outcome = "returned"
                    /\ dbResult'.value.id = id
                    /\ dbResult'.value.score = score
                    /\ dbResult'.value \in attestations'

\* C10: every stored attestation and score-history score is within 0..100; a
\* create with a score outside 0..100 throws the check violation 23514 and
\* stores nothing, updateScore of a stored row with such a score throws 23514
\* and leaves the row as it was, and the scores 0 and 100 are accepted.
C10_ScoreRange ==
    [][C10_ScoresInRange /\ C10_ScoresInRange' /\ C10_WriteOutcome]_vars

\* C10 witness: updateScore was refused with 23514 while an attestation is
\* stored with a boundary score and a score-history entry with the other one.
C10_Witness ==
    /\ Threw(dbResult, "attestations.updateScore", "23514")
    /\ \E a \in attestations, h \in scoreHistory :
          {a.score, h.score} = {0, 100}

----------------------------------------------------------------------------
(* Properties of the store under RulesSpec *)

NotBlank(text) == \E k \in 1..Len(text) : text[k] # " "

C11_RowsWithinRules ==
    /\ \A b \in bonds : /\ b.amount >= 0
                        /\ b.durationDays > 0
                        /\ b.status \in {"active", "released", "slashed"}
    /\ \A e \in slashEvents : e.slashAmount > 0 /\ NotBlank(e.reason)
    /\ \A i \in identities : NotBlank(i.address)

C11_WriteOutcome ==
    /\ dbResult'.op = "identities.create" =>
       \A input \in IdentityInputs :
          (IdentitiesCreate(input) /\ ~NotBlank(input.address)) =>
              /\ Threw(dbResult', "identities.create", "23514")
              /\ identities' = identities
    /\ dbResult'.op = "bonds.create" =>
       \A input \in RuleBondInputs :
          (/\ BondsCreate(input)
           /\ \/ input.amount < 0
              \/ input.durationDays <= 0
              \/ input.status \notin {StatusUndefined, "active", "released", "slashed"}) =>
              /\ Threw(dbResult', "bonds.create", "23514")
              /\ bonds' = bonds
    /\ dbResult'.op = "bonds.updateStatus" =>
       \A id \in BondIds, status \in StatusInputs :
          (BondsUpdateStatus(id, status) /\ \E b \in bonds : b.id = id) =>
              IF status \in {"active", "released", "slashed"}
              THEN /\ dbResult'.outcome = "returned"
                   /\ dbResult'.value.id = id
                   /\ dbResult'.value.status = status
                   /\ dbResult'.value \in bonds'
              ELSE /\ Threw(dbResult', "bonds.updateStatus", "23514")
                   /\ bonds' = bonds
    /\ dbResult'.op = "slashEvents.create" =>
       \A input \in RuleSlashEventInputs :
          (/\ SlashEventsCreate(input)
           /\ input.slashAmount <= 0 \/ ~NotBlank(input.reason)) =>
              /\ Threw(dbResult', "slashEvents.create", "23514")
              /\ slashEvents' = slashEvents

\* C11: every stored bond has amount >= 0, durationDays > 0 and one of the
\* three statuses, every stored slash event an amount > 0 and a reason that is
\* not blank, every stored identity an address that is not blank; a create
\* that breaks one of these rules, and an updateStatus of a stored bond to
\* another status, throws the check violation 23514 and stores nothing.
C11_CheckRules ==
    [][C11_RowsWithinRules /\ C11_RowsWithinRules' /\ C11_WriteOutcome]_vars

\* C11 witness: updateStatus of a stored bond was refused with 23514; the bond
\* has amount 0 and lasts one day, and a slash event of the smallest amount is
\* stored.
C11_Witness ==
    /\ Threw(dbResult, "bonds.updateStatus", "23514")
    /\ \E b \in bonds : b.amount = 0 /\ b.durationDays = 1
    /\ \E e \in slashEvents : e.slashAmount = 1

C12_TablesUnchanged ==
    /\ identities' = identities
    /\ bonds' = bonds
    /\ attestations' = attestations
    /\ slashEvents' = slashEvents
    /\ scoreHistory' = scoreHistory

\* what a create that breaks a rule of some kind must end with: the range kind
\* is reported before the duplicate kind, and that before the reference kind
C12_Refused(op, range, duplicate, reference) ==
    (range \/ duplicate \/ reference) =>
        /\ Threw(dbResult', op, IF range THEN "23514"
                                ELSE IF duplicate THEN "23505" ELSE "23503")
        /\ C12_TablesUnchanged

C12_HasIdentity(address) == \E i \in identities : i.address = address
C12_HasBond(id) == \E b \in bonds : b.id = id

C12_CreateOutcome ==
    /\ dbResult'.op = "identities.create" =>
       \A input \in IdentityInputs :
          IdentitiesCreate(input) =>
              C12_Refused("identities.create",
                          ~NotBlank(input.address),
                          C12_HasIdentity(input.address),
                          FALSE)
    /\ dbResult'.op = "bonds.create" =>
       \A input \in RuleBondInputs :
          BondsCreate(input) =>
              C12_Refused("bonds.create",
                          \/ input.amount < 0
                          \/ input.durationDays <= 0
                          \/ input.status \notin {StatusUndefined, "active", "released", "slashed"},
                          FALSE,
                          ~C12_HasIdentity(input.identityAddress))
    /\ dbResult'.op = "attestations.create" =>
       \A input \in RuleAttestationInputs :
          AttestationsCreate(input) =>
              C12_Refused("attestations.create",
                          input.score \notin 0..100,
                          \E a \in attestations : SameTriple(a, input),
                          \/ ~C12_HasBond(input.bondId)
                          \/ ~C12_HasIdentity(input.attesterAddress)
                          \/ ~C12_HasIdentity(input.subjectAddress))
    /\ dbResult'.op = "slashEvents.create" =>
       \A input \in RuleSlashEventInputs :
          SlashEventsCreate(input) =>
              C12_Refused("slashEvents.create",
                          input.slashAmount <= 0 \/ ~NotBlank(input.reason),
                          FALSE,
                          ~C12_HasBond(input.bondId))
    /\ dbResult'.op = "scoreHistory.create" =>
       \A input \in RuleScoreHistoryInputs :
          ScoreHistoryCreate(input) =>
              C12_Refused("scoreHistory.create",
                          \/ input.score \notin 0..100
                          \/ input.source \notin {"bond", "attestation", "slash", "manual"},
                          FALSE,
                          ~C12_HasIdentity(input.identityAddress))

\* C12: a create that breaks a rule throws the code of a kind of rule it
\* breaks (23514 range or blank, 23505 duplicate key, 23503 missing parent; of
\* several kinds broken at once the first of these), and all five tables hold
\* exactly the rows they held before the call.
C12_CreateFailure == [][C12_CreateOutcome]_vars

\* C12 witness: an attestation naming an identity that is not stored was
\* refused with 23503 while another attestation on the bond is stored.
C12_Witness ==
    /\ Threw(dbResult, "attestations.create", "23503")
    /\ bonds # {}
    /\ attestations # {}

C13_UpdateOutcome ==
    /\ dbResult'.op = "identities.update" =>
       \A address \in Addresses, input \in RuleUpdateIdentityInputs :
          IdentitiesUpdate(address, input) =>
              IF C12_HasIdentity(address)
              THEN /\ dbResult'.outcome = "returned"
                   /\ dbResult'.value.address = address
                   /\ dbResult'.value.displayName = input.displayName
                   /\ identities' =
                        {i \in identities : i.address # address} \cup {dbResult'.value}
              ELSE /\ dbResult'.outcome = "null"
                   /\ C12_TablesUnchanged
    /\ dbResult'.op = "bonds.updateStatus" =>
       \A id \in BondIds, status \in StatusInputs :
          BondsUpdateStatus(id, status) =>
              IF ~C12_HasBond(id)
              THEN dbResult'.outcome = "null" /\ C12_TablesUnchanged
              ELSE status \notin {"active", "released", "slashed"} =>
                      dbResult'.outcome = "thrown" /\ C12_TablesUnchanged
    /\ dbResult'.op = "attestations.updateScore" =>
       \A id \in AttestationIds, score \in RuleUpdateScores :
          AttestationsUpdateScore(id, score) =>
              IF ~\E a \in attestations : a.id = id
              THEN dbResult'.outcome = "null" /\ C12_TablesUnchanged
              ELSE score \notin 0..100 =>
                      dbResult'.outcome = "thrown" /\ C12_TablesUnchanged

\* C13: an update (identity display name, bond status, attestation score) of
\* an address or id that no row has returns null and leaves all tables as
\* they were; an update of a stored row to a value the schema refuses throws
\* and leaves all tables as they were.
C13_UpdateNullOrThrow == [][C13_UpdateOutcome]_vars

\* C13 witness: updateScore of an id that no attestation has returned null
\* while an attestation is stored.
C13_Witness ==
    /\ dbResult.op = "attestations.updateScore"
    /\ dbResult.outcome = "null"
    /\ attestations # {}

----------------------------------------------------------------------------
(* Properties of the endpoint allow-list under EndpointSpec *)

C14_Begins(path, prefix) ==
    /\ Len(path) >= Len(prefix)
    /\ \A k \in 1..Len(prefix) : path[k] = prefix[k]

C14_Prefixes(tier) ==
    CASE tier = "FREE" -> {ApiTrust, ApiHealth}
      [] tier = "PRO" -> {ApiTrust, ApiHealth, ApiBond}
      [] tier = "ENTERPRISE" -> {}

\* C14: isEndpointAllowed answers true exactly for an ENTERPRISE record (its
\* list holds '*') and for a path that begins with a prefix of the record's
\* tier (FREE /api/trust, /api/health; PRO also /api/bond); a path a FREE
\* record is allowed is allowed to a PRO and to an ENTERPRISE record.
C14_EndpointAllowList ==
    result.op = "isEndpointAllowed" =>
        /\ result.allowed =
              (\/ result.tier = "ENTERPRISE"
               \/ \E prefix \in C14_Prefixes(result.tier) : C14_Begins(result.path, prefix))
        /\ (result.tier = "FREE" /\ result.allowed) =>
              \A tier \in {"PRO", "ENTERPRISE"} :
                  isEndpointAllowed([getKey(result.key) EXCEPT !.tier = tier], result.path)

\* C14 witness: a FREE record was asked about /api/bond/123 and denied.
C14_Witness ==
    /\ result.op = "isEndpointAllowed"
    /\ result.tier = "FREE"
    /\ result.path = ApiBond \o <<"/","1","2","3">>
    /\ ~result.allowed

----------------------------------------------------------------------------
(* Further properties of the quota service under Spec *)

\* C15: with whole calls taken one at a time, the calls answered allowed=true
\* for a key while one window is stored (same windowStartMs), all made with
\* one tier, never number more than that tier's limit.
C15_AdmittedWithinLimit ==
    \A key \in Keys :
        admitted[key].tier \in SubscriptionTier =>
            admitted[key].n <= Limit(admitted[key].tier)

\* C15 witness: a PRO window has had 100 calls admitted, made at more than one
\* clock reading, and the last call was refused.
C15_Witness ==
    \E key \in Keys :
        /\ admitted[key].tier = "PRO"
        /\ admitted[key].n = 100
        /\ now > admitted[key].windowStartMs
        /\ IsQuotaCall(result) /\ result.key = key /\ ~result.allowed

\* C16: reset() leaves no record and no usage window for any key, and the
\* first non-admin call for a key after a reset is answered allowed=true with
\* remaining = limit - 1 and stores a window begun at the call's clock reading
\* with one token used, whatever the reset discarded.
C16_ResetClears ==
    [][/\ result'.op = "reset" =>
            \A key \in Keys : getKey(key)' = NoRecord /\ quotaUsages'[key] = NoUsage
       /\ \A key \in Keys :
            (wiped[key].ledger # "none" /\ wiped[key].calls = 0 /\ wiped'[key].calls = 1) =>
                /\ IsQuotaCall(result') /\ result'.key = key
                /\ result'.allowed
                /\ result'.remaining = Limit(result'.tier) - 1
                /\ quotaUsages'[key] = [tokensUsed |-> 1, windowStartMs |-> now']
      ]_vars

\* C16 witness: a reset discarded a used-up window, and the one call made for
\* the key since was answered allowed=true with remaining = limit - 1.
C16_Witness ==
    \E key \in Keys :
        /\ wiped[key] = [ledger |-> "exhausted", calls |-> 1]
        /\ IsQuotaCall(result) /\ result.key = key
        /\ result.allowed /\ result.remaining = Limit(result.tier) - 1

----------------------------------------------------------------------------
(* Further properties of the store under StoreSpec *)

\* C17: deleting a bond removes exactly that bond, the attestations on it and
\* the slash events on it; identities, score history and the rows of other
\* bonds stay as they were.
C17_BondDeleteCascade ==
    [][dbResult'.op = "bonds.delete" =>
       \A id \in BondIds :
        BondsDelete(id) =>
            /\ bonds' = {b \in bonds : b.id # id}
            /\ attestations' = {a \in attestations : a.bondId # id}
            /\ slashEvents' = {e \in slashEvents : e.bondId # id}
            /\ identities' = identities
            /\ scoreHistory' = scoreHistory
      ]_vars

\* C17 witness: a bond was deleted; both identities are stored, and of the one
\* bond, one attestation and one slash event the sequences numbered none is.
C17_Witness ==
    /\ GaveBack(dbResult, "bonds.delete") /\ dbResult.value = TRUE
    /\ Cardinality(identities) = 2
    /\ seqs.bonds = 1 /\ bonds = {}
    /\ seqs.attestations = 1 /\ attestations = {}
    /\ seqs.slashEvents = 1 /\ slashEvents = {}

C18_Deleted(op, existed, existsAfter) ==
    /\ dbResult' = Returned(op, existed)
    /\ ~existsAfter
    /\ ~existed => C12_TablesUnchanged

\* C18: delete of every repository returns true exactly when a row with the
\* key was stored just before the call; afterwards no row has the key, and a
\* delete that returns false leaves all tables as they were.
C18_DeleteReturn ==
    [][/\ dbResult'.op = "identities.delete" =>
            \A address \in Addresses :
                IdentitiesDelete(address) =>
                    C18_Deleted("identities.delete",
                                \E i \in identities : i.address = address,
                                \E i \in identities' : i.address = address)
       /\ dbResult'.op = "bonds.delete" =>
            \A id \in BondIds :
                BondsDelete(id) =>
                    C18_Deleted("bonds.delete",
                                \E b \in bonds : b.id = id,
                                \E b \in bonds' : b.id = id)
       /\ dbResult'.op = "attestations.delete" =>
            \A id \in AttestationIds :
                AttestationsDelete(id) =>
                    C18_Deleted("attestations.delete",
                                \E a \in attestations : a.id = id,
                                \E a \in attestations' : a.id = id)
       /\ dbResult'.op = "slashEvents.delete" =>
            \A id \in SlashEventIds :
                SlashEventsDelete(id) =>
                    C18_Deleted("slashEvents.delete",
                                \E e \in slashEvents : e.id = id,
                                \E e \in slashEvents' : e.id = id)
       /\ dbResult'.op = "scoreHistory.delete" =>
            \A id \in ScoreHistoryIds :
                ScoreHistoryDelete(id) =>
                    C18_Deleted("scoreHistory.delete",
                                \E h \in scoreHistory : h.id = id,
                                \E h \in scoreHistory' : h.id = id)
      ]_vars

\* C18 witness: a slash-event delete returned false; the one slash event the
\* sequence numbered is gone, and so is the one bond.
C18_Witness ==
    /\ GaveBack(dbResult, "slashEvents.delete") /\ dbResult.value = FALSE
    /\ seqs.slashEvents = 1 /\ slashEvents = {}
    /\ seqs.bonds = 1 /\ bonds = {}

----------------------------------------------------------------------------
(* Properties of the list operations under ListSpec *)

\* `list` holds exactly `rows`, each once
C19_Holds(list, rows) ==
    /\ Len(list) = Cardinality(rows)
    /\ {list[k] : k \in 1..Len(list)} = rows

\* `list` holds exactly `rows`, the latest in the field `time` first and, of
\* equal times, larger id first
C19_NewestFirst(list, rows, time) ==
    /\ C19_Holds(list, rows)
    /\ \A k \in 1..(Len(list) - 1) :
          \/ list[k][time] > list[k + 1][time]
          \/ list[k][time] = list[k + 1][time] /\ list[k].id > list[k + 1].id

\* `list` holds all identities, earliest createdAt first and, of equal times,
\* in ascending order of address
C19_OldestFirst(list, rows) ==
    /\ C19_Holds(list, rows)
    /\ \A k \in 1..(Len(list) - 1) :
          \/ list[k].createdAt < list[k + 1].createdAt
          \/ /\ list[k].createdAt = list[k + 1].createdAt
             /\ TextLess(list[k].address, list[k + 1].address)

\* the five listBy operations other than the bonds' and the identities' list
C19_OtherLists ==
    /\ dbResult'.op = "attestations.listBySubject" =>
        \A address \in Addresses :
            AttestationsListBySubject(address) =>
                C19_NewestFirst(dbResult'.value,
                                {a \in attestations : a.subjectAddress = address},
                                "createdAt")
    /\ dbResult'.op = "attestations.listByBond" =>
        \A id \in BondIds :
            AttestationsListByBond(id) =>
                C19_NewestFirst(dbResult'.value,
                                {a \in attestations : a.bondId = id}, "createdAt")
    /\ dbResult'.op = "slashEvents.listByBond" =>
        \A id \in BondIds :
            SlashEventsListByBond(id) =>
                C19_NewestFirst(dbResult'.value,
                                {e \in slashEvents : e.bondId = id}, "createdAt")
    /\ dbResult'.op = "scoreHistory.listByIdentity" =>
        \A address \in Addresses :
            ScoreHistoryListByIdentity(address) =>
                C19_NewestFirst(dbResult'.value,
                                {h \in scoreHistory : h.identityAddress = address},
                                "computedAt")
    /\ dbResult'.op = "identities.list" =>
        (IdentitiesList => C19_OldestFirst(dbResult'.value, identities))

C19_BondsList(time) ==
    dbResult'.op = "bonds.listByIdentity" =>
        \A address \in Addresses :
            BondsListByIdentity(address) =>
                C19_NewestFirst(dbResult'.value,
                                {b \in bonds : b.identityAddress = address}, time)

\* C19: every list operation returns exactly the matching rows (the empty
\* sequence when there are none): attestations and slash events latest
\* createdAt first, score history latest computedAt first, bonds latest
\* startTime first, each with ties by descending id; identities earliest
\* createdAt first, ties by ascending address.
C19_ListOrder == [][C19_OtherLists /\ C19_BondsList("startTime")]_vars

\* C19 as stated: BondsRepository.listByIdentity, too, returns the matching
\* rows latest creation time first, ties by descending id.
C19_BondsNewestCreatedFirst == [][C19_BondsList("createdAt")]_vars

\* C19 witness: listByIdentity returned two bonds, and the one listed first was
\* created before the other.
C19_Witness ==
    /\ GaveBack(dbResult, "bonds.listByIdentity")
    /\ Len(dbResult.value) = 2
    /\ dbResult.value[1].startTime > dbResult.value[2].startTime
    /\ dbResult.value[1].createdAt < dbResult.value[2].createdAt

----------------------------------------------------------------------------
(* Properties of totalSlashedForBond under TotalSpec *)

C20_DigitValue(c) == CHOOSE d \in 0..9 : Digit(d) = c

RECURSIVE C20_Pow10(_)
C20_Pow10(k) == IF k = 0 THEN 1 ELSE 10 * C20_Pow10(k - 1)

RECURSIVE C20_Number(_)
C20_Number(digits) ==
    IF digits = <<>> THEN 0
    ELSE C20_Number(SubSeq(digits, 1, Len(digits) - 1)) * 10
         + C20_DigitValue(digits[Len(digits)])

\* the number a decimal text stands for, in units of 10^-7
C20_Value(text) ==
    IF \E k \in 1..Len(text) : text[k] = "."
    THEN LET k == CHOOSE j \in 1..Len(text) : text[j] = "."
             places == Len(text) - k
         IN  C20_Number(SubSeq(text, 1, k - 1)) * C20_Pow10(7)
             + C20_Number(SubSeq(text, k + 1, Len(text))) * C20_Pow10(7 - places)
    ELSE C20_Number(text) * C20_Pow10(7)

\* the sum of slashAmount over the stored slash events of the bond with ids up
\* to k
RECURSIVE C20_SumTo(_, _)
C20_SumTo(bondId, k) ==
    IF k = 0 THEN 0
    ELSE C20_SumTo(bondId, k - 1)
         + (IF \E e \in slashEvents : e.id = k /\ e.bondId = bondId
            THEN (CHOOSE e \in slashEvents : e.id = k).slashAmount
            ELSE 0)

C20_Total ==
    dbResult'.op = "slashEvents.totalSlashedForBond" =>
        \A id \in TotalBondIds :
            SlashEventsTotalSlashedForBond(id) =>
                /\ dbResult'.outcome = "returned"
                /\ C20_Value(dbResult'.value) = C20_SumTo(id, seqs.slashEvents)
                /\ (\A e \in slashEvents : e.bondId # id) => dbResult'.value = <<"0">>

\* C20: totalSlashedForBond(b) returns a text numerically equal to the sum of
\* slashAmount over the slash events now stored for bond b, whatever creates,
\* deletes and cascading deletes came before, and the text "0", never null,
\* when no such row is stored, also when no bond has the id b.
C20_TotalIsSumOfStored == [][C20_Total]_vars

\* C20 witness: with amounts 2.5 and 4 stored for a bond, the total returned
\* is 6.5000000.
C20_Witness ==
    /\ GaveBack(dbResult, "slashEvents.totalSlashedForBond")
    /\ dbResult.value = <<"6", ".", "5", "0", "0", "0", "0", "0", "0">>
    /\ \E e, f \in slashEvents :
          /\ e.bondId = f.bondId
          /\ e.slashAmount = 25000000
          /\ f.slashAmount = 40000000

----------------------------------------------------------------------------
(* Properties of the middleware *)

\* what the claim expects of one run of the authentication middleware
C21_Outcome(req, t) ==
    LET record == Lookup(req.apiKey)
        refused(status) ==
            /\ http'.status = status
            /\ http'.nextCalls = 0
            /\ http'.apiKeyRecord = NoRecord
    IN  IF Falsy(req.apiKey) THEN refused(401)
        ELSE IF record = NoRecord THEN refused(403)
        ELSE IF HasExpiry(record) /\ record.expiresAt < t THEN refused(403)
        ELSE /\ http'.status = 0
             /\ http'.apiKeyRecord = record
             /\ http'.nextCalls = 1

\* C21: requireApiKey, as the application mounts it (handleRequest without a
\* required scope), answers 401 without a header, 403 for a key that is not
\* registered and 403 for an expired key, never calling next or attaching a
\* record then, and otherwise attaches the key's record and calls next once.
C21_RequireApiKeyOutcome ==
    [][http'.mw = "handleRequest" =>
          \A req \in AuthRequests, t \in ClockReadings :
              handleRequest(req, NoScope, t) => C21_Outcome(req, t)]_vars

\* the same of the form of requireApiKey without scopes
C21_ScopelessOutcome ==
    [][http'.mw = "requireApiKey" =>
          \A req \in AuthRequests, t \in ClockReadings :
              requireApiKey(req, t) => C21_Outcome(req, t)]_vars

\* what the claim expects of one run of enforceQuota, the service having
\* answered `result'` when it was asked
C22_Outcome(req) ==
    IF req.apiKeyRecord = NoRecord
    THEN http'.status = 500 /\ http'.nextCalls = 0 /\ http'.remaining = NotSet
    ELSE IF /\ req.apiKeyRecord.tier # "ENTERPRISE"
            /\ \A prefix \in C14_Prefixes(req.apiKeyRecord.tier) : ~C14_Begins(req.path, prefix)
    THEN http'.status = 403 /\ http'.nextCalls = 0 /\ http'.remaining = NotSet
    ELSE /\ result'.op = "checkAndIncrementQuota"
         /\ result'.key = req.apiKeyRecord.key
         /\ IF ~result'.allowed
            THEN http'.status = 429 /\ http'.nextCalls = 0 /\ http'.remaining = NotSet
            ELSE /\ http'.status = 0
                 /\ http'.remaining = result'.remaining
                 /\ http'.nextCalls = 1

\* the requests requireApiKey hands on to enforceQuota
C22_Authenticated ==
    {[req EXCEPT !.apiKeyRecord = Lookup(req.apiKey),
                 !.authKey = [key |-> req.apiKey, scope |-> ScopeOf(Lookup(req.apiKey))]] :
        req \in {r \in RouteRequests : Lookup(r.apiKey) # NoRecord}}

\* the step is a run of enforceQuota on req at clock reading t, alone or
\* behind requireApiKey
C22_Ran(req, t) ==
    \/ enforceQuota(req, t)
    \/ /\ req.apiKeyRecord # NoRecord
       /\ \E read \in ClockReadings : t <= read /\ enforceQuotaClockRead(req, t, read)

\* C22: enforceQuota gives one outcome per request, decided in this order:
\* 500 without a record, 403 when the tier does not allow the path, 429 when
\* checkAndIncrementQuota answers allowed = false, and otherwise the header
\* X-RateLimit-Remaining set to the remaining count and next called; next is
\* called in the last case only and never with an error response.
C22_EnforceQuotaOrder ==
    [][http'.mw = "enforceQuota" =>
          /\ \A t \in ClockReadings :
                C22_Ran(http'.req, t) =>
                    /\ http'.req \in DirectRequests \cup C22_Authenticated
                    /\ C22_Outcome(http'.req)
          /\ http'.nextCalls = 1 <=> http'.status = 0]_vars

\* C22 witness: a FREE record whose window is used up asked for a path of its
\* tier and was answered 429; next was not called.
C22_Witness ==
    /\ http.mw = "enforceQuota"
    /\ http.status = 429
    /\ http.nextCalls = 0
    /\ http.req.path = ApiTrust \o <<"/","1","2","3">>

\* C23: every response to a request that carried a valid API key (one
\* requireApiKey passed on to enforceQuota) has the X-RateLimit-Remaining
\* header, giving the requests remaining in the window, whether the request
\* was admitted or rejected.
C23_RemainingHeaderAlways ==
    (http.mw = "enforceQuota" /\ http.apiKeyRecord # NoRecord) =>
        /\ http.remaining # NotSet
        /\ result.op = "checkAndIncrementQuota" => http.remaining = result.remaining

\* the tokens the call about to be made finds used in the window of `key`
C27_UsedBefore(key) ==
    IF quotaUsages[key] = NoUsage \/ result'.fresh THEN 0 ELSE quotaUsages[key].tokensUsed

C27_Frame(req) ==
    /\ http'.status \in {500, 403} => UNCHANGED <<quotaUsages, apiKeys>>
    /\ http'.nextCalls = 1 =>
          LET record == req.apiKeyRecord
          IN  IF record.isAdminOverride
              THEN UNCHANGED quotaUsages
              ELSE /\ quotaUsages'[record.key].tokensUsed = C27_UsedBefore(record.key) + 1
                   /\ \A k \in Keys \ {record.key} : quotaUsages'[k] = quotaUsages[k]

\* C27: a request enforceQuota answers with 500 or with 403 leaves the quota
\* ledger as it was, and a request that reaches next has used exactly one
\* token of its key's window, or none when the key has the admin override.
C27_DeniedConsumesNothing ==
    [][http'.mw = "enforceQuota" =>
          \A t \in ClockReadings : C22_Ran(http'.req, t) => C27_Frame(http'.req)]_vars

\* C27 witness: a FREE key with tokens used in its window was refused
\* /api/bond/123 with 403.
C27_Witness ==
    /\ http.mw = "enforceQuota"
    /\ http.status = 403
    /\ http.req.apiKeyRecord.tier = "FREE"
    /\ quotaUsages[http.req.apiKeyRecord.key] # NoUsage
    /\ quotaUsages[http.req.apiKeyRecord.key].tokensUsed > 0

----------------------------------------------------------------------------
(* Properties of checkAndIncrementQuota in a runtime with threads (RaceSpec) *)

\* what a write-back does, told from the ledger before and after it: a
\* caller works on the stored entry itself or, having started a fresh window
\* or having seen the stored entry replaced, on an entry of its own
C24_WriteBack(th) ==
    LET local == threads[th]
        key == local.keyRecord.key
        limit == Limit(local.keyRecord.tier)
        held == IF local.obj = "stored" THEN quotaUsages[key] ELSE local.usage
    IN  /\ local.fresh => local.obj # "stored"
        /\ result'.allowed <=> held.tokensUsed < limit
        /\ result'.allowed =>
              /\ quotaUsages'[key].tokensUsed = held.tokensUsed + 1
              /\ quotaUsages'[key].windowStartMs = held.windowStartMs
        \* the stored entry is shared: every admission on it is counted
        /\ (local.obj = "stored" /\ result'.allowed) =>
              quotaUsages'[key].tokensUsed = quotaUsages[key].tokensUsed + 1
        \* an entry of the caller's own is not: when another call has stored
        \* the same window since the read, this call is admitted and the count
        \* does not grow
        /\ ( /\ local.obj # "stored"
             /\ quotaUsages[key] # NoUsage
             /\ quotaUsages[key].windowStartMs = local.usage.windowStartMs
             /\ quotaUsages[key].tokensUsed > local.usage.tokensUsed
             /\ local.usage.tokensUsed < limit )
           => /\ result'.allowed
              /\ quotaUsages'[key].tokensUsed <= quotaUsages[key].tokensUsed

\* C24: with the ledger read and the write-back as separate steps, a call is
\* admitted on the count of the usage object it holds and stores that count
\* plus one.  Two calls that both start a fresh window each hold an object
\* of their own: both are admitted while the stored count grows by one only
\* (the lost update), so the key is admitted more often than its limit within
\* one window, as the witness shows.  Calls that find a running window share
\* the stored object and lose nothing.
C24_LostUpdate ==
    [][\A th \in Threads : (threads[th] # NoThread /\ WriteBack(th)) => C24_WriteBack(th)]_vars

\* C24 witness: a call has just been admitted, the
\* stored count is still within the limit, and the calls admitted in the
\* stored window outnumber the limit of the tier.
C24_Witness ==
    \E key \in Keys :
        /\ IsQuotaCall(result) /\ result.key = key /\ result.allowed
        /\ admitted[key].tier = "FREE"
        /\ admitted[key].n > Limit("FREE")
        /\ quotaUsages[key].windowStartMs = admitted[key].windowStartMs
        /\ quotaUsages[key].tokensUsed <= Limit("FREE")

----------------------------------------------------------------------------
(* Properties of the fixed window under BurstSpec *)

\* the admitted calls from the i-th to the j-th lie in an interval shorter
\* than the window
C25_Within(i, j) == recent.admitted[j] - recent.admitted[i] < TicksPerWindow

\* C25, the bound: in no interval shorter than the window is the key admitted
\* more than twice its limit.
C25_AtMostTwiceLimit ==
    \A i, j \in 1..Len(recent.admitted) :
        (i <= j /\ C25_Within(i, j)) => j - i + 1 <= 2 * Limit("FREE")

\* C25 witness, the burst: twice the limit admitted within an interval shorter
\* than the window, the limit before the window boundary and the limit after.
C25_Witness ==
    /\ Len(recent.admitted) > 2 * Limit("FREE")
    /\ \E i, j \in 1..Len(recent.admitted) :
        /\ C25_Within(i, j)
        /\ j - i + 1 = 2 * Limit("FREE")
        /\ DateNow(recent.admitted[j]) - DateNow(recent.admitted[i]) >= WindowMs

----------------------------------------------------------------------------
(* ListenerSpec: AttestationListener.  contract.on registers the two async  *)
(* handlers; the emitter does not await them, so the handler of a later     *)
(* event may run while an earlier one is suspended at an await.  The calls  *)
(* made to the repository, the reputation service and console.error are    *)
(* kept in order in listener.calls.                                         *)

Users == {"0xUser", "0xOther"}
Attesters == {"0xAttester"}
EventData == {"TestData"}

Called(fn, e, args) == [fn |-> fn, event |-> e, args |-> args]

FailedMessage(kind) ==
    IF kind = "Attested" THEN "Failed to process Attested event"
    ELSE "Failed to process Revoked event"

\* start: a new Contract is made this.contract and the two handlers are
\* registered on it.  A Contract an earlier start made is no longer reachable
\* from the listener and stays as it is, its handlers registered unless stop
\* was called on it: listener.replaced holds the states such Contracts are in.
start ==
    listener' = [listener EXCEPT
        !.contract = "listening",
        !.replaced = IF listener.contract = "null" THEN @ ELSE @ \cup {listener.contract}]

\* stop: removeAllListeners on this.contract, which stays set
stop ==
    /\ listener.contract # "null"
    /\ listener' = [listener EXCEPT !.contract = "removed"]

\* some Contract has the handlers registered
Listening == listener.contract = "listening" \/ "listening" \in listener.replaced

\* the handler's synchronous part: up to the await of the repository call
Handle(kind, fn, e, user, attester, data) ==
    /\ Listening
    /\ listener.handlers[e] = NoEvent
    /\ \A earlier \in 1..(e - 1) : listener.handlers[earlier] # NoEvent
    /\ listener' = [listener EXCEPT
           !.handlers[e] = [pc |-> "repository", kind |-> kind, user |-> user,
                            attester |-> attester, data |-> data,
                            repository |-> "pending", promise |-> "pending"],
           !.calls = Append(@, Called(fn, e, <<user, attester, data>>))]

handleAttested(e, user, attester, data) ==
    Handle("Attested", "upsertAttestation", e, user, attester, data)

handleRevoked(e, user, attester, data) ==
    Handle("Revoked", "revokeAttestation", e, user, attester, data)

\* what an awaited promise may reject with (catch (err: unknown)): an Error,
\* or no value at all, as a stub of the repository or of its client can
Reasons == {"Error", "undefined", "null"}
Nullish(reason) == reason \in {"undefined", "null"}

\* what the calls the listener is wired to reject with: upsertAttestation and
\* revokeAttestation await pool.query, invalidateCache awaits redis.del, and
\* both clients reject with an Error object
ClientErrors == {"Error"}

\* the catch block, were nothing logged
CaughtSilently(e, handler, reason) ==
    [listener EXCEPT !.handlers[e] = [handler EXCEPT !.promise = "resolved"]]

\* the catch block: console.error is given e.message, the error is logged
\* and the handler returns.  Reading .message of undefined or null throws a
\* TypeError inside the catch block: nothing is logged and the handler's
\* promise rejects.
Caught(e, handler, reason) ==
    IF Nullish(reason)
    THEN [listener EXCEPT !.handlers[e] = [handler EXCEPT !.promise = "rejected"]]
    ELSE [listener EXCEPT
            !.handlers[e] = [handler EXCEPT !.promise = "resolved"],
            !.calls = Append(@, Called("console.error", e, <<FailedMessage(handler.kind)>>))]

\* the awaited repository call resolves: invalidateCache(user) is called
RepositoryResolved(e) ==
    LET handler == listener.handlers[e]
    IN  /\ handler.pc = "repository"
        /\ listener' = [listener EXCEPT
               !.handlers[e] = [handler EXCEPT !.pc = "invalidateCache",
                                               !.repository = "resolved"],
               !.calls = Append(@, Called("invalidateCache", e, <<handler.user>>))]

\* the awaited repository call rejects: control goes to the catch block
RepositoryRejected(e, reason) ==
    LET handler == listener.handlers[e]
    IN  /\ handler.pc = "repository"
        /\ listener' = Caught(e, [handler EXCEPT !.pc = "done",
                                                 !.repository = "rejected"], reason)

InvalidateResolved(e) ==
    LET handler == listener.handlers[e]
    IN  /\ handler.pc = "invalidateCache"
        /\ listener' = [listener EXCEPT
               !.handlers[e] = [handler EXCEPT !.pc = "done", !.promise = "resolved"]]

InvalidateRejected(e, reason) ==
    LET handler == listener.handlers[e]
    IN  /\ handler.pc = "invalidateCache"
        /\ listener' = Caught(e, [handler EXCEPT !.pc = "done"], reason)

Start == start
Stop == stop
Attested == \E e \in Events, user \in Users, attester \in Attesters, data \in EventData :
                handleAttested(e, user, attester, data)
Revoked == \E e \in Events, user \in Users, attester \in Attesters, data \in EventData :
               handleRevoked(e, user, attester, data)
RepositorySettles ==
    \E e \in Events :
        \/ RepositoryResolved(e)
        \/ \E reason \in Reasons : RepositoryRejected(e, reason)
InvalidateSettles ==
    \E e \in Events :
        \/ InvalidateResolved(e)
        \/ \E reason \in Reasons : InvalidateRejected(e, reason)


\* the same with the listener wired to AttestationRepository and
\* ReputationService, whose clients reject with an Error
RepositoryAnswers ==
    \E e \in Events :
        \/ RepositoryResolved(e)
        \/ \E reason \in ClientErrors : RepositoryRejected(e, reason)
InvalidateAnswers ==
    \E e \in Events :
        \/ InvalidateResolved(e)
        \/ \E reason \in ClientErrors : InvalidateRejected(e, reason)

ListenerNext ==
    \/ Start /\ UNCHANGED <<quotaVars, storeVars, http, threads, recent>>
    \/ Stop /\ UNCHANGED <<quotaVars, storeVars, http, threads, recent>>
    \/ Attested /\ UNCHANGED <<quotaVars, storeVars, http, threads, recent>>
    \/ Revoked /\ UNCHANGED <<quotaVars, storeVars, http, threads, recent>>
    \/ RepositoryAnswers /\ UNCHANGED <<quotaVars, storeVars, http, threads, recent>>
    \/ InvalidateAnswers /\ UNCHANGED <<quotaVars, storeVars, http, threads, recent>>

ListenerSpec == Init /\ [][ListenerNext]_vars

\* StubbedSpec: the listener given stubs in place of the repository and the
\* reputation service, which settle with whatever a promise may
StubbedNext ==
    \/ Start /\ UNCHANGED <<quotaVars, storeVars, http, threads, recent>>
    \/ Stop /\ UNCHANGED <<quotaVars, storeVars, http, threads, recent>>
    \/ Attested /\ UNCHANGED <<quotaVars, storeVars, http, threads, recent>>
    \/ Revoked /\ UNCHANGED <<quotaVars, storeVars, http, threads, recent>>
    \/ RepositorySettles /\ UNCHANGED <<quotaVars, storeVars, http, threads, recent>>
    \/ InvalidateSettles /\ UNCHANGED <<quotaVars, storeVars, http, threads, recent>>

StubbedSpec == Init /\ [][StubbedNext]_vars

----------------------------------------------------------------------------
(* Properties of two keys side by side (IsolationSpec) *)

C26_Registered(a) ==
    /\ getKey(a.key)'.key = a.key
    /\ getKey(a.key)'.tier = a.tier
    /\ getKey(a.key)'.isAdminOverride = (a.flag = <<TRUE>>)
    /\ \A other \in IsolationKeys \ {a.key} : getKey(other)' = getKey(other)
    /\ \A k \in IsolationKeys : quotaUsages'[k] = quotaUsages[k]

\* C26: registerKey(key, tier, isAdminOverride) leaves getKey(key) a record of
\* exactly that tier and flag (false when the flag is left out), in place of
\* any earlier record, and changes neither the record of another key nor
\* any entry of the quota ledger: a key registered again keeps its window.
C26_RegisterKeyFrame ==
    [][result'.op = "registerKey" =>
          \A a \in RegisterArguments :
              registerKey(a.key, a.tier, DefaultFalse(a.flag), now) => C26_Registered(a)]_vars

\* C26 witness: a FREE key whose window is used up has just been registered
\* again as FREE, the flag left out, and its window is still used up.
C26_Witness ==
    \E key \in IsolationKeys :
        /\ result.op = "registerKey"
        /\ result.record.key = key
        /\ result.record.tier = "FREE"
        /\ ~result.record.isAdminOverride
        /\ quotaUsages[key] # NoUsage
        /\ quotaUsages[key].tokensUsed = Limit("FREE")
        /\ now - quotaUsages[key].windowStartMs < WindowMs

\* the answer the ledger entry of the record's own key calls for
C28_OwnDecision(record, t) ==
    LET own == quotaUsages[record.key]
    IN  \/ record.isAdminOverride
        \/ own = NoUsage
        \/ t - own.windowStartMs >= WindowMs
        \/ own.tokensUsed < Limit(record.tier)

C28_Call(key, t) ==
    /\ result'.allowed <=> C28_OwnDecision(getKey(key), t)
    /\ \A k \in IsolationKeys : getKey(k)' = getKey(k)
    /\ \A other \in IsolationKeys \ {key} : quotaUsages'[other] = quotaUsages[other]

\* C28: checkAndIncrementQuota(record) answers by the ledger entry of
\* record.key alone, whatever the entries of other keys hold, and changes
\* neither the registry nor the entry of another key: a key is rejected only
\* when its own window is used up.
C28_KeysIsolated ==
    [][IsQuotaCall(result') =>
          \A key \in IsolationKeys, t \in ClockReadings :
              (getKey(key) # NoRecord /\ checkAndIncrementQuota(getKey(key), t))
                  => C28_Call(key, t)]_vars

\* C28 witness: one key's window is used up and the other key, of the same
\* tier, has just been admitted.
C28_Witness ==
    \E key \in IsolationKeys, other \in IsolationKeys :
        /\ key # other
        /\ IsQuotaCall(result) /\ result.key = key /\ result.allowed
        /\ result.tier = "FREE" /\ ~result.isAdminOverride
        /\ quotaUsages[other] # NoUsage
        /\ quotaUsages[other].tokensUsed = Limit("FREE")
        /\ now - quotaUsages[other].windowStartMs < WindowMs
        /\ getKey(other) # NoRecord
        /\ getKey(other).tier = "FREE" /\ ~getKey(other).isAdminOverride

----------------------------------------------------------------------------
(* Properties of the admin override and the allow-list (OverrideSpec) *)

\* the answer the tier and the path call for
C29_Answer(tier, path) ==
    \/ tier = "ENTERPRISE"
    \/ \E prefix \in C14_Prefixes(tier) : C14_Begins(path, prefix)

\* records of the tier of `record` with another key, creation time, override
\* flag or expiry
C29_Variants(record) ==
    LET plain == [key : {"k1", "k2"}, tier : {record.tier},
                  createdAt : {0, record.createdAt}, isAdminOverride : BOOLEAN]
    IN  plain \cup {[expiresAt |-> at] @@ r : r \in plain, at \in ExpiryTimes}

\* C29: the answer of isEndpointAllowed is decided by the record's tier and
\* the path alone: a record of the same tier with another override flag, key
\* or expiry gets the same answer, whatever quota was consumed, so an
\* admin-override FREE or PRO key is denied a path outside its tier's list;
\* and the call changes neither the registry nor the quota ledger.
C29_TierAndPathOnly ==
    [][result'.op = "isEndpointAllowed" =>
          /\ result'.allowed = C29_Answer(getKey(result'.key).tier, result'.path)
          /\ \A other \in C29_Variants(getKey(result'.key)) :
                isEndpointAllowed(other, result'.path) = result'.allowed
          /\ apiKeys' = apiKeys
          /\ quotaUsages' = quotaUsages]_vars

\* C29 witness: an admin-override FREE key, a used-up window still stored
\* under it, asked for /api/bond/123 and was denied.
C29_Witness ==
    /\ result.op = "isEndpointAllowed"
    /\ getKey(result.key).tier = "FREE"
    /\ getKey(result.key).isAdminOverride
    /\ quotaUsages[result.key] # NoUsage
    /\ quotaUsages[result.key].tokensUsed = Limit("FREE")
    /\ result.path = ApiBond \o <<"/","1","2","3">>
    /\ ~result.allowed

----------------------------------------------------------------------------
(* Properties of the AttestationListener (ListenerSpec) *)

\* the places in listener.calls of the calls of name fn made for event e
C30_Places(e, fns) ==
    {i \in DOMAIN listener.calls :
        listener.calls[i].event = e /\ listener.calls[i].fn \in fns}

C30_AnyCall == {"upsertAttestation", "revokeAttestation", "invalidateCache", "console.error"}

\* what the calls made for a delivered event must look like
C30_Handled(e) ==
    LET handler == listener.handlers[e]
        expected == IF handler.kind = "Attested" THEN "upsertAttestation"
                    ELSE "revokeAttestation"
        repository == C30_Places(e, {"upsertAttestation", "revokeAttestation"})
        invalidate == C30_Places(e, {"invalidateCache"})
        logged == C30_Places(e, {"console.error"})
    IN  /\ Cardinality(repository) = 1
        /\ \A i \in repository :
              /\ listener.calls[i].fn = expected
              /\ listener.calls[i].args = <<handler.user, handler.attester, handler.data>>
              /\ \A j \in C30_Places(e, C30_AnyCall) : i <= j
        /\ Cardinality(invalidate) <= 1
        /\ \A i \in invalidate :
              /\ handler.repository = "resolved"
              /\ listener.calls[i].args = <<handler.user>>
        /\ handler.repository = "resolved" => invalidate # {}
        /\ handler.repository = "rejected" =>
              /\ invalidate = {}
              /\ \E i \in logged :
                    listener.calls[i].args =
                        <<IF handler.kind = "Attested"
                          THEN "Failed to process Attested event"
                          ELSE "Failed to process Revoked event">>
              /\ handler.pc = "done"
              /\ handler.promise = "resolved"
        /\ handler.promise # "rejected"

\* a repository call that fails ends its own handler only
C30_FailureIsContained ==
    \A e \in Events :
        (listener.handlers[e] # NoEvent /\ listener'.handlers[e] # NoEvent
            /\ listener.handlers[e].repository = "pending"
            /\ listener'.handlers[e].repository = "rejected") =>
        /\ listener'.contract = listener.contract
        /\ listener'.replaced = listener.replaced
        /\ \A other \in Events \ {e} : listener'.handlers[other] = listener.handlers[other]

\* C30: for every Attested (Revoked) event the handler first calls
\* upsertAttestation (revokeAttestation) with the event's user, attester and
\* data, and calls invalidateCache(user) only once that call has succeeded;
\* when the repository call fails the error is logged, invalidateCache is not
\* called for the event, the handler's promise resolves, and the listener
\* and the handlers of other events are left as they were.
C30_RepositoryThenInvalidate ==
    [][/\ \A e \in Events : listener'.handlers[e] # NoEvent => C30_Handled(e)'
       /\ C30_FailureIsContained]_vars

\* C30 witness: the repository call of the first event failed and was logged,
\* without an invalidateCache for it, and the second event, delivered after
\* the failure was logged, went through its repository call to invalidateCache.
C30_Witness ==
    /\ listener.handlers[1] # NoEvent
    /\ listener.handlers[2] # NoEvent
    /\ listener.handlers[1].repository = "rejected"
    /\ listener.handlers[1].promise = "resolved"
    /\ C30_Places(1, {"invalidateCache"}) = {}
    /\ listener.handlers[2].repository = "resolved"
    /\ \E i \in C30_Places(1, {"console.error"}) :
          \E j \in C30_Places(2, {"upsertAttestation", "revokeAttestation"}) :
              \E k \in C30_Places(2, {"invalidateCache"}) : i < j /\ j < k

====
